---- MODULE Spec2Model ----
(***************************************************************************)
(* SoilSense: the recommendation-derivation pipeline.                      *)
(*                                                                         *)
(* The module models the request handler generate_recommendation           *)
(* (backend/routes/recommendations.py) step by step, together with the     *)
(* functions it calls: the allocation engine (ml/fertilizer_engine.py),    *)
(* the reasoning narrative (ml/inference.py), the weather service          *)
(* (services/weather.py), the soil improvement advisor                     *)
(* (ml/soil_improvement.py), the crop scheduler (ml/crop_schedules.py)     *)
(* and the verified price table (ml/fertilizer_prices.py).                 *)
(*                                                                         *)
(* Numbers.  Python floats are modelled as exact rationals in lowest       *)
(* terms, [n |-> numerator, d |-> denominator], d > 0.  round(x, k) is     *)
(* modelled as rounding of the exact value to k decimals, ties to even.    *)
(* Where the code truncates a float with int() (the lime quantity), the    *)
(* float operations are computed in binary64, bit by bit.                  *)
(* Strings.  A string is kept as a TLA+ string; where the code looks       *)
(* inside a string (split, strip, startswith) the model works on its       *)
(* sequence of characters, Chars(s).                                       *)
(*                                                                         *)
(* Specifications.  Spec is one request from the lookups to the commit;    *)
(* SpecReprice is the handler after the engine, for any list of line       *)
(* items; SpecAdvisor and SpecSchedule run get_soil_improvements and       *)
(* get_application_schedule on their own, call after call; SpecReasoning   *)
(* runs generate_reasoning paragraph by paragraph; SpecStore is the        *)
(* database under the farmer, device and soil data routes, request after   *)
(* request.                                                                *)
(***************************************************************************)
EXTENDS Integers, Sequences, FiniteSets, TLC

\* ------------------------------------------------------------------ bounds
\* Nutrient targets handed out by the predictor: 0, 30, ..., 30 * MaxReq kg/ha.
MaxReq == 4
\* Longest list of line items handed to the repricing loop in SpecReprice.
MaxItems == 2

\* ------------------------------------------------------- exact arithmetic
RECURSIVE GCD(_, _)
GCD(a, b) == IF b = 0 THEN a ELSE GCD(b, a % b)

Abs(a) == IF a < 0 THEN -a ELSE a

\* The rational n/d in lowest terms with a positive denominator.
R(n, d) ==
  LET s == IF d < 0 THEN -1 ELSE 1
      g == GCD(Abs(n), Abs(d))
  IN  [n |-> (s * n) \div g, d |-> (s * d) \div g]

Zero == R(0, 1)

LCM(a, b) == (a \div GCD(a, b)) * b

\* x.n / x.d brought to the denominator l, a multiple of x.d.
Over(x, l) == x.n * (l \div x.d)

RAdd(x, y) == LET l == LCM(x.d, y.d) IN R(Over(x, l) + Over(y, l), l)
RSub(x, y) == LET l == LCM(x.d, y.d) IN R(Over(x, l) - Over(y, l), l)
RMul(x, y) ==
  LET g1 == GCD(Abs(x.n), y.d)
      g2 == GCD(Abs(y.n), x.d)
  IN  R((x.n \div g1) * (y.n \div g2), (x.d \div g2) * (y.d \div g1))
RDiv(x, y) == RMul(x, R(y.d, y.n))
RLt(x, y) == LET l == LCM(x.d, y.d) IN Over(x, l) < Over(y, l)
RLe(x, y) == LET l == LCM(x.d, y.d) IN Over(x, l) <= Over(y, l)
RGt(x, y) == RLt(y, x)
RGe(x, y) == RLe(y, x)
RAbs(x) == [n |-> Abs(x.n), d |-> x.d]

Ceil_Floor(x) == x.n \div x.d

\* math.ceil(x): the least integer not below x.
Ceil(x) == -((-x.n) \div x.d)

\* int(x): truncation toward zero.
Trunc(x) == IF x.n >= 0 THEN x.n \div x.d ELSE -((-x.n) \div x.d)

Pow10(k) == IF k = 0 THEN 1 ELSE IF k = 1 THEN 10 ELSE 100

\* round(x, k) for k in 0..2: the multiple of 10^-k nearest to x.  A value
\* exactly halfway goes to the even multiple, as round does for a float
\* that is exactly halfway; for a decimal tie that no float represents
\* (50 * 0.4047 = 20.235) Python follows the representation error of the
\* float instead.
Round(x, k) ==
  LET y == RMul(x, R(Pow10(k), 1))
      f == y.n \div y.d
      twice == 2 * (y.n - f * y.d)
      r == IF twice < y.d THEN f
           ELSE IF twice > y.d THEN f + 1
           ELSE IF f % 2 = 0 THEN f ELSE f + 1
  IN  R(r, Pow10(k))

RECURSIVE RSum(_)
RSum(s) == IF s = <<>> THEN Zero ELSE RAdd(Head(s), RSum(Tail(s)))

\* ------------------------------------------------- binary64 arithmetic
\* A Python float is an IEEE 754 binary64 number.  Where the code truncates
\* a float product to an integer, the rounding of each operation decides
\* the result, so those operations are computed bit by bit: a float is
\* [neg, bits, exp], standing for the natural written by bits in binary
\* (most significant bit first, at most 53 bits) times 2^exp, negated when
\* neg.  Subnormal numbers and overflow do not arise for soil values.
Zeros(k) == [i \in 1..k |-> 0]

BitLength(k) == CHOOSE l \in 0..30 : k < 2^l /\ (l = 0 \/ k >= 2^(l - 1))

\* The natural k < 2^30 in binary.
NatBits(k) == [i \in 1..BitLength(k) |-> (k \div 2^(BitLength(k) - i)) % 2]

RECURSIVE BitsNat(_)
BitsNat(bs) ==
  IF bs = <<>> THEN 0
  ELSE 2 * BitsNat(SubSeq(bs, 1, Len(bs) - 1)) + bs[Len(bs)]

\* 2^k modulo d, by squaring.
RECURSIVE Pow2Mod(_, _)
Pow2Mod(k, d) ==
  IF k = 0 THEN 1 % d
  ELSE IF k % 2 = 0 THEN (Pow2Mod(k \div 2, d) * Pow2Mod(k \div 2, d)) % d
  ELSE (2 * Pow2Mod(k - 1, d)) % d

\* What is left of r / d after its first k bits, for 0 <= r < d.
FracRem(r, d, k) == (r * Pow2Mod(k, d)) % d

\* The first k bits after the binary point of r / d, for 0 <= r < d.
FracBits(r, d, k) == [i \in 1..k |-> (2 * FracRem(r, d, i - 1)) \div d]

\* The number of zero bits after the binary point of r / d, 0 < r < d.
LeadingZeros(r, d) ==
  CHOOSE z \in 0..64 :
    /\ 2 * FracRem(r, d, z) >= d
    /\ \A j \in 0..(z - 1) : 2 * FracRem(r, d, j) < d

StripZeros(bs) ==
  IF \A i \in 1..Len(bs) : bs[i] = 0 THEN <<>>
  ELSE SubSeq(bs,
              CHOOSE i \in 1..Len(bs) : bs[i] = 1 /\ \A j \in 1..(i - 1) : bs[j] = 0,
              Len(bs))

\* bits + 1.
Increment(bs) ==
  IF \A i \in 1..Len(bs) : bs[i] = 1 THEN <<1>> \o Zeros(Len(bs))
  ELSE LET last0 == CHOOSE j \in 1..Len(bs) :
                      bs[j] = 0 /\ \A m \in (j + 1)..Len(bs) : bs[m] = 1
       IN  [i \in 1..Len(bs) |-> IF i < last0 THEN bs[i] ELSE IF i = last0 THEN 1 ELSE 0]

\* Round to nearest, ties to even: bits (no leading zero) times 2^exp,
\* plus a nonzero remainder below the last bit when sticky.
RoundToDouble(neg, bits, exp, sticky) ==
  LET n == Len(bits)
      keep == SubSeq(bits, 1, 53)
      rest == SubSeq(bits, 54, n)
      more == sticky \/ \E i \in 2..Len(rest) : rest[i] = 1
      up == rest[1] = 1 /\ (more \/ keep[53] = 1)
      kept == IF up THEN Increment(keep) ELSE keep
  IN  IF n <= 53 THEN [neg |-> neg /\ bits # <<>>, bits |-> bits, exp |-> exp]
      ELSE IF Len(kept) = 54
      THEN [neg |-> neg, bits |-> SubSeq(kept, 1, 53), exp |-> exp + (n - 53) + 1]
      ELSE [neg |-> neg, bits |-> kept, exp |-> exp + (n - 53)]

\* The float nearest to the rational x: a decimal literal of the code, or
\* a decimal value read from a column.
Double(x) ==
  LET a == Abs(x.n)
      whole == NatBits(a \div x.d)
      r == a % x.d
      k == IF whole # <<>> THEN 54 - Len(whole) ELSE LeadingZeros(r, x.d) + 54
  IN  IF a = 0 THEN [neg |-> FALSE, bits |-> <<>>, exp |-> 0]
      ELSE RoundToDouble(x.n < 0, StripZeros(whole \o FracBits(r, x.d, k)),
                         -k, FracRem(r, x.d, k) # 0)

\* X < Y for bit strings of one length.
BitsLess(X, Y) ==
  \E j \in 1..Len(X) : X[j] < Y[j] /\ \A m \in 1..(j - 1) : X[m] = Y[m]

\* X - Y for bit strings of one length with X >= Y: a position borrows
\* when what follows it in X is less than what follows it in Y.
SubBits(X, Y) ==
  [i \in 1..Len(X) |->
     (X[i] - Y[i]
        - (IF BitsLess(SubSeq(X, i + 1, Len(X)), SubSeq(Y, i + 1, Len(Y)))
           THEN 1 ELSE 0)
        + 2) % 2]

\* The carry out of what follows position i in X + Y.
Carry(X, Y, i) ==
  \E j \in (i + 1)..Len(X) :
    X[j] + Y[j] = 2 /\ \A m \in (i + 1)..(j - 1) : X[m] + Y[m] = 1

\* X + Y for bit strings of one length: one bit more.
AddBits(X, Y) ==
  [i \in 1..(Len(X) + 1) |->
     IF i = 1 THEN (IF Carry(X, Y, 0) THEN 1 ELSE 0)
     ELSE (X[i - 1] + Y[i - 1] + (IF Carry(X, Y, i - 1) THEN 1 ELSE 0)) % 2]

\* X + Y for bit strings X at least as long as Y.
AddShorter(X, Y) == AddBits(X, Zeros(Len(X) - Len(Y)) \o Y)

\* bits times the natural k, bit by bit of k.
RECURSIVE MulBits(_, _)
MulBits(X, k) ==
  IF k = 0 \/ X = <<>> THEN <<>>
  ELSE IF k = 1 THEN X
  ELSE IF k % 2 = 0 THEN MulBits(X, k \div 2) \o <<0>>
  ELSE AddShorter(MulBits(X, k \div 2) \o <<0>>, X)

\* a - b for floats a, b >= 0.
FSub(a, b) ==
  LET e == IF a.exp < b.exp THEN a.exp ELSE b.exp
      A0 == a.bits \o Zeros(a.exp - e)
      B0 == b.bits \o Zeros(b.exp - e)
      n == IF Len(A0) > Len(B0) THEN Len(A0) ELSE Len(B0)
      A == Zeros(n - Len(A0)) \o A0
      B == Zeros(n - Len(B0)) \o B0
  IN  IF BitsLess(A, B)
      THEN RoundToDouble(TRUE, StripZeros(SubBits(B, A)), e, FALSE)
      ELSE RoundToDouble(FALSE, StripZeros(SubBits(A, B)), e, FALSE)

\* a * k for a float a and a natural k that is itself a float.
FMul(a, k) == RoundToDouble(a.neg, StripZeros(MulBits(a.bits, k)), a.exp, FALSE)

\* a <= 0.
FNotPositive(a) == a.neg \/ a.bits = <<>>

\* int(a): the integer part of a, towards zero.
FInt(a) ==
  LET n == Len(a.bits)
      magnitude == IF a.exp >= 0 THEN BitsNat(a.bits \o Zeros(a.exp))
                   ELSE IF n + a.exp <= 0 THEN 0
                   ELSE BitsNat(SubSeq(a.bits, 1, n + a.exp))
  IN  IF a.neg THEN -magnitude ELSE magnitude

\* ---------------------------------------------------------------- strings
\* The characters of the string literals the program handles.
Chars(s) ==
  CASE s = "Urea" -> <<"U","r","e","a">>
      [] s = "DAP (Diammonium Phosphate)" -> <<"D","A","P"," ","(","D","i","a","m","m","o","n","i","u","m"," ","P","h","o","s","p","h","a","t","e",")">>
      [] s = "MOP (Muriate of Potash)" -> <<"M","O","P"," ","(","M","u","r","i","a","t","e"," ","o","f"," ","P","o","t","a","s","h",")">>
      [] s = "SSP (Single Super Phosphate)" -> <<"S","S","P"," ","(","S","i","n","g","l","e"," ","S","u","p","e","r"," ","P","h","o","s","p","h","a","t","e",")">>
      [] s = "NPK 10-26-26" -> <<"N","P","K"," ","1","0","-","2","6","-","2","6">>
      [] s = "NPK 12-32-16" -> <<"N","P","K"," ","1","2","-","3","2","-","1","6">>
      [] s = "NPK 14-35-14" -> <<"N","P","K"," ","1","4","-","3","5","-","1","4">>
      [] s = "NPK 17-17-17" -> <<"N","P","K"," ","1","7","-","1","7","-","1","7">>
      [] s = "NPK 19-19-19" -> <<"N","P","K"," ","1","9","-","1","9","-","1","9">>
      [] s = "NPK 20-20-0-13" -> <<"N","P","K"," ","2","0","-","2","0","-","0","-","1","3">>
      [] s = "NPK 28-28-0" -> <<"N","P","K"," ","2","8","-","2","8","-","0">>
      [] s = "NPK 29-5-5" -> <<"N","P","K"," ","2","9","-","5","-","5">>
      [] s = "Biofertilizer (Rhizobium/Azotobacter)" -> <<"B","i","o","f","e","r","t","i","l","i","z","e","r"," ","(","R","h","i","z","o","b","i","u","m","/","A","z","o","t","o","b","a","c","t","e","r",")">>
      [] s = "DAP" -> <<"D","A","P">>
      [] s = "MOP" -> <<"M","O","P">>
      [] s = "NPK 10:26:26" -> <<"N","P","K"," ","1","0",":","2","6",":","2","6">>
      [] s = "NPK 12:32:16" -> <<"N","P","K"," ","1","2",":","3","2",":","1","6">>
      [] s = "NPK 17:17:17" -> <<"N","P","K"," ","1","7",":","1","7",":","1","7">>
      [] s = "NPK 20:20:0:13" -> <<"N","P","K"," ","2","0",":","2","0",":","0",":","1","3">>
      [] s = "SSP" -> <<"S","S","P">>
      [] s = "Basmati Rice" -> <<"B","a","s","m","a","t","i"," ","R","i","c","e">>
      [] s = "Wheat" -> <<"W","h","e","a","t">>
      [] s = "Millet" -> <<"M","i","l","l","e","t">>
      [] s = "rice" -> <<"r","i","c","e">>
      [] s = "paddy" -> <<"p","a","d","d","y">>
      [] s = "wheat" -> <<"w","h","e","a","t">>
      [] s = "maize" -> <<"m","a","i","z","e">>
      [] s = "corn" -> <<"c","o","r","n">>
      [] s = "cotton" -> <<"c","o","t","t","o","n">>
      [] s = "sugarcane" -> <<"s","u","g","a","r","c","a","n","e">>
      [] s = "potato" -> <<"p","o","t","a","t","o">>
      [] s = "tomato" -> <<"t","o","m","a","t","o">>
      [] s = "PADDY" -> <<"P","A","D","D","Y">>
      [] s = "Wheat/Rice" -> <<"W","h","e","a","t","/","R","i","c","e">>
      [] s = "Maize" -> <<"M","a","i","z","e">>
      [] s = "Sweet Corn" -> <<"S","w","e","e","t"," ","C","o","r","n">>
      [] s = "Cotton" -> <<"C","o","t","t","o","n">>
      [] s = "Sugarcane" -> <<"S","u","g","a","r","c","a","n","e">>
      [] s = "Sugar cane" -> <<"S","u","g","a","r"," ","c","a","n","e">>
      [] s = "Potato" -> <<"P","o","t","a","t","o">>
      [] s = "Tomato" -> <<"T","o","m","a","t","o">>
      [] s = "Tomato/Potato" -> <<"T","o","m","a","t","o","/","P","o","t","a","t","o">>
      [] s = "Buckwheat" -> <<"B","u","c","k","w","h","e","a","t">>
      [] s = "DAP + MOP" -> <<"D","A","P"," ","+"," ","M","O","P">>
      [] s = "DAP + MOP + Urea (33%)" -> <<"D","A","P"," ","+"," ","M","O","P"," ","+"," ","U","r","e","a"," ","(","3","3","%",")">>
      [] s = "DAP + MOP + Urea (25%)" -> <<"D","A","P"," ","+"," ","M","O","P"," ","+"," ","U","r","e","a"," ","(","2","5","%",")">>
      [] s = "Urea + MOP" -> <<"U","r","e","a"," ","+"," ","M","O","P">>
      [] s = "" -> <<>>

\* s.startswith(prefix), on character sequences.
StartsWith(cs, prefix) ==
  /\ Len(cs) >= Len(prefix)
  /\ SubSeq(cs, 1, Len(prefix)) = prefix

\* s.split(sep)[0]: the part of cs before the first occurrence of the
\* character sep, all of cs when sep does not occur.
RECURSIVE SplitFirst(_, _)
SplitFirst(cs, sep) ==
  IF cs = <<>> \/ Head(cs) = sep THEN <<>>
  ELSE <<Head(cs)>> \o SplitFirst(Tail(cs), sep)

RECURSIVE LStrip(_)
LStrip(cs) == IF cs # <<>> /\ Head(cs) = " " THEN LStrip(Tail(cs)) ELSE cs

RECURSIVE RStrip(_)
RStrip(cs) ==
  IF cs # <<>> /\ cs[Len(cs)] = " " THEN RStrip(SubSeq(cs, 1, Len(cs) - 1)) ELSE cs

\* s.strip()
Strip(cs) == RStrip(LStrip(cs))

BaseName_Unstripped(name) == SplitFirst(Chars(name), "(")

\* fert['fertilizer'].split('(')[0].strip()
BaseName(name) == Strip(SplitFirst(Chars(name), "("))

UpperCase ==
  <<"A","B","C","D","E","F","G","H","I","J","K","L","M",
    "N","O","P","Q","R","S","T","U","V","W","X","Y","Z">>

LowerCase ==
  <<"a","b","c","d","e","f","g","h","i","j","k","l","m",
    "n","o","p","q","r","s","t","u","v","w","x","y","z">>

Lower_AsIs(cs) == cs

\* s.lower()
Lower(cs) ==
  [i \in 1..Len(cs) |->
     IF \E j \in 1..26 : UpperCase[j] = cs[i]
     THEN LowerCase[CHOOSE j \in 1..26 : UpperCase[j] = cs[i]]
     ELSE cs[i]]

\* sub in s
Contains(cs, sub) ==
  \E i \in 1..(Len(cs) - Len(sub) + 1) : SubSeq(cs, i, i + Len(sub) - 1) = sub

\* Python's None.
None == [none |-> TRUE]

\* --------------------------------------------------- fertilizer catalog
\* Fertilizer.__init__: percentages are stored as fractions.
Fertilizer(name, n_percent, p_percent, k_percent, cost_per_kg) ==
  [name |-> name,
   n_percent |-> R(n_percent, 100),
   p_percent |-> R(p_percent, 100),
   k_percent |-> R(k_percent, 100),
   cost_per_kg |-> R(cost_per_kg, 1)]

FERTILIZERS ==
  << Fertilizer("Urea", 46, 0, 0, 6),
     Fertilizer("DAP (Diammonium Phosphate)", 18, 46, 0, 27),
     Fertilizer("MOP (Muriate of Potash)", 0, 0, 60, 17),
     Fertilizer("SSP (Single Super Phosphate)", 0, 16, 0, 8),
     Fertilizer("NPK 10-26-26", 10, 26, 26, 22),
     Fertilizer("NPK 12-32-16", 12, 32, 16, 24),
     Fertilizer("NPK 14-35-14", 14, 35, 14, 25),
     Fertilizer("NPK 17-17-17", 17, 17, 17, 20),
     Fertilizer("NPK 19-19-19", 19, 19, 19, 21),
     Fertilizer("NPK 20-20-0-13", 20, 20, 0, 18),
     Fertilizer("NPK 28-28-0", 28, 28, 0, 23) >>

\* The module-level list FERTILIZERS as it stands while requests are served.
VARIABLE catalog

FirstStartingWith_AnyProduct(prefix) == catalog[1]

\* next(f for f in FERTILIZERS if f.name.startswith(prefix))
FirstStartingWith(prefix) ==
  LET hit(i) == StartsWith(Chars(catalog[i].name), Chars(prefix))
      first == CHOOSE i \in 1..Len(catalog) :
                 hit(i) /\ \A j \in 1..(i - 1) : ~hit(j)
  IN  catalog[first]

\* next(f for f in FERTILIZERS if f.name == name)
FirstNamed(name) ==
  LET first == CHOOSE i \in 1..Len(catalog) :
                 catalog[i].name = name /\ \A j \in 1..(i - 1) : catalog[j].name # name
  IN  catalog[first]

\* ------------------------------------------------- verified price table
PriceEntry(price, n, p, k) ==
  [price_per_50kg |-> price,
   nitrogen_percent |-> n, phosphorus_percent |-> p, potassium_percent |-> k]

FERTILIZER_PRICES_INR ==
  ("Urea" :> PriceEntry(266, 46, 0, 0)) @@
  ("DAP" :> PriceEntry(1350, 18, 46, 0)) @@
  ("MOP" :> PriceEntry(1700, 0, 0, 60)) @@
  ("NPK 10:26:26" :> PriceEntry(1450, 10, 26, 26)) @@
  ("NPK 12:32:16" :> PriceEntry(1500, 12, 32, 16)) @@
  ("NPK 17:17:17" :> PriceEntry(1425, 17, 17, 17)) @@
  ("NPK 20:20:0:13" :> PriceEntry(1200, 20, 20, 0)) @@
  ("SSP" :> PriceEntry(450, 0, 16, 0))

\* fert_name in FERTILIZER_PRICES_INR, fert_name a character sequence.
InPriceTable(fert_name) ==
  \E key \in DOMAIN FERTILIZER_PRICES_INR : Chars(key) = fert_name

\* FERTILIZER_PRICES_INR[fert_name]['price_per_50kg']
PricePer50kg(fert_name) ==
  LET key == CHOOSE k \in DOMAIN FERTILIZER_PRICES_INR : Chars(k) = fert_name
  IN  FERTILIZER_PRICES_INR[key].price_per_50kg

\* The text put in the price field of an item without a verified price.
PriceNotAvailable == [text |-> "Govt. price not available"]

\* ---------------------------------------------------- allocation engine
\* Hectares to acres factor used for the per-acre quantities.
PerAcre == R(4047, 10000)

\* dap_needed_kg = p_remaining / dap.p_percent
dap_needed_kg(p_rem) == RDiv(p_rem, FirstStartingWith("DAP").p_percent)

n_from_dap_Ignored(dap_kg) == Zero

n_from_dap_ByPhosphorus(dap_kg) == RMul(dap_kg, FirstStartingWith("DAP").p_percent)

\* n_from_dap = dap_needed_kg * dap.n_percent
n_from_dap(dap_kg) == RMul(dap_kg, FirstStartingWith("DAP").n_percent)

\* mop_needed_kg = k_remaining / mop.k_percent
mop_needed_kg(k_rem) == RDiv(k_rem, FirstStartingWith("MOP").k_percent)

\* urea_needed_kg = n_remaining / urea.n_percent
urea_needed_kg(n_rem) == RDiv(n_rem, FirstNamed("Urea").n_percent)

NeedsDAP_OrZero(p_rem) == RGe(p_rem, Zero)

\* Line 69: if p_remaining > 0
NeedsDAP(p_rem) == RGt(p_rem, Zero)

\* Line 88: if k_remaining > 0
NeedsMOP(k_rem) == RGt(k_rem, Zero)

NeedsUrea_NonZero(n_rem) == n_rem # Zero

\* Line 105: if n_remaining > 0
NeedsUrea(n_rem) == RGt(n_rem, Zero)

\* The dict appended for one product: quantities and rough cost are rounded
\* to 2 decimals when the item is built.
LineItem(name, needed_kg, field_area_hectares, provides, cost_per_kg) ==
  [fertilizer |-> name,
   quantity_kg_per_hectare |-> Round(needed_kg, 2),
   quantity_kg_per_acre |-> Round(RMul(needed_kg, PerAcre), 2),
   quantity_total |-> Round(RMul(needed_kg, field_area_hectares), 2),
   provides |-> provides,
   cost |-> Round(RMul(needed_kg, cost_per_kg), 2)]

DapItem(p_rem, field_area_hectares) ==
  LET dap == FirstStartingWith("DAP")
  IN  LineItem("DAP (Diammonium Phosphate)", dap_needed_kg(p_rem), field_area_hectares,
               <<Round(n_from_dap(dap_needed_kg(p_rem)), 1), " kg N + ", Round(p_rem, 1), " kg P2O5">>,
               dap.cost_per_kg)

MopItem(k_rem, field_area_hectares) ==
  LET mop == FirstStartingWith("MOP")
  IN  LineItem("MOP (Muriate of Potash)", mop_needed_kg(k_rem), field_area_hectares,
               <<Round(k_rem, 1), " kg K2O">>, mop.cost_per_kg)

UreaItem(n_rem, field_area_hectares) ==
  LET urea == FirstNamed("Urea")
  IN  LineItem("Urea", urea_needed_kg(n_rem), field_area_hectares,
               <<Round(n_rem, 1), " kg N">>, urea.cost_per_kg)

\* _get_application_timing: the list that is joined with " | ".
get_application_timing(n, p, k) ==
  (IF RGt(p, Zero) \/ RGt(k, Zero)
   THEN <<"**Basal Application** (at sowing/planting): Apply all DAP and MOP">>
   ELSE <<>>)
  \o
  (IF RGt(n, Zero)
   THEN <<"**Basal Application** (at sowing): 25-30% of Urea",
          "**First Top Dressing** (3-4 weeks after sowing): 35-40% of Urea",
          "**Second Top Dressing** (6-7 weeks after sowing): 30-35% of Urea">>
   ELSE <<>>)

\* _get_application_method: one fixed text.
get_application_method ==
  <<"**Application Methods:**",
    "- **Broadcasting**: Spread fertilizer evenly before final plowing",
    "- **Drilling**: Place fertilizer in rows 5-7 cm deep alongside seeds",
    "- **Band Placement**: Apply in bands 5 cm away from plant rows",
    "- **Top Dressing**: Broadcast nitrogen fertilizer and irrigate immediately",
    "",
    "**Important Notes:**",
    "- Apply fertilizers on moist soil",
    "- Incorporate fertilizers into soil to prevent loss",
    "- Avoid direct contact with seeds",
    "- Irrigate after top dressing to activate nutrients">>

\* generate_recommendation_summary: the values formatted into the summary
\* text, item by item, then the total and the two guidance texts.
generate_recommendation_summary(fertilizer_data) ==
  [items |->
     [i \in 1..Len(fertilizer_data.fertilizers) |->
        LET fert == fertilizer_data.fertilizers[i]
        IN  [number |-> i,
             fertilizer |-> fert.fertilizer,
             quantity_kg_per_hectare |-> fert.quantity_kg_per_hectare,
             quantity_kg_per_acre |-> fert.quantity_kg_per_acre,
             provides |-> fert.provides,
             cost |-> fert.cost]],
   total_cost |-> fertilizer_data.total_cost,
   application_timing |-> fertilizer_data.application_timing,
   application_method |-> fertilizer_data.application_method]

\* ------------------------------------------------- reasoning narrative
NitrogenLevel(nitrogen) ==
  IF RLt(nitrogen, R(20, 1)) THEN "LOW"
  ELSE IF RLt(nitrogen, R(30, 1)) THEN "MODERATE" ELSE "HIGH"

PhosphorusLevel(phosphorus) ==
  IF RLt(phosphorus, R(15, 1)) THEN "LOW"
  ELSE IF RLt(phosphorus, R(25, 1)) THEN "MODERATE" ELSE "HIGH"

PotassiumLevel(potassium) ==
  IF RLt(potassium, R(15, 1)) THEN "LOW"
  ELSE IF RLt(potassium, R(25, 1)) THEN "MODERATE" ELSE "HIGH"

PhLevel_Inclusive(ph) ==
  IF RLt(ph, R(55, 10)) THEN "ACIDIC"
  ELSE IF RGe(ph, R(75, 10)) THEN "ALKALINE" ELSE "NEUTRAL"

PhLevel(ph) ==
  IF RLt(ph, R(55, 10)) THEN "ACIDIC"
  ELSE IF RGt(ph, R(75, 10)) THEN "ALKALINE" ELSE "NEUTRAL"

\* if ec and ec > 2.0
EcHigh(ec) == ec # None /\ ec # Zero /\ RGt(ec, R(2, 1))

\* NutrientPredictor.generate_reasoning: the lines of the narrative.
generate_reasoning(soil, crop, season, req_n, req_p, req_k) ==
  [crop |-> crop,
   season |-> season,
   nitrogen |-> <<Round(soil.nitrogen, 1), NitrogenLevel(soil.nitrogen)>>,
   phosphorus |-> <<Round(soil.phosphorus, 1), PhosphorusLevel(soil.phosphorus)>>,
   potassium |-> <<Round(soil.potassium, 1), PotassiumLevel(soil.potassium)>>,
   ph |-> <<Round(soil.ph, 1), PhLevel(soil.ph)>>,
   ec |-> IF EcHigh(soil.ec) THEN <<Round(soil.ec, 1), "HIGH">> ELSE <<>>,
   required |-> <<Round(req_n, 1), Round(req_p, 1), Round(req_k, 1)>>]

\* ------------------------------------------------------ weather service
DefaultCoords == [lat |-> R(205937, 10000), lon |-> R(789629, 10000)]

DISTRICT_COORDINATES ==
  ("Pune" :> [lat |-> R(185204, 10000), lon |-> R(738567, 10000)]) @@
  ("Mumbai" :> [lat |-> R(190760, 10000), lon |-> R(728777, 10000)]) @@
  ("Nagpur" :> [lat |-> R(211458, 10000), lon |-> R(790882, 10000)]) @@
  ("Nashik" :> [lat |-> R(199975, 10000), lon |-> R(737898, 10000)]) @@
  ("Amravati" :> [lat |-> R(209374, 10000), lon |-> R(777796, 10000)]) @@
  ("Delhi" :> [lat |-> R(286139, 10000), lon |-> R(772090, 10000)]) @@
  ("Ludhiana" :> [lat |-> R(309010, 10000), lon |-> R(758573, 10000)]) @@
  ("Chandigarh" :> [lat |-> R(307333, 10000), lon |-> R(767794, 10000)])

\* get_location_coords
get_location_coords(district) ==
  IF district \in DOMAIN DISTRICT_COORDINATES
  THEN DISTRICT_COORDINATES[district] ELSE DefaultCoords

\* What the HTTP request of get_forecast can meet: requests.get raises
\* (no network, timeout), raise_for_status raises, the body is not JSON, or
\* a JSON body arrives.
HttpFailures == {"network_error", "timeout", "http_error", "invalid_json"}

\* WeatherService.get_forecast: every exception is caught and gives None.
get_forecast(http) == IF http.kind \in HttpFailures THEN None ELSE http.body

\* rain_forecast[:3]
FirstThree(rain) == SubSeq(rain, 1, IF Len(rain) < 3 THEN Len(rain) ELSE 3)

\* WeatherService.get_fertilizer_timing_advice, applied to the forecast
\* get_forecast returned.  The result is the advice text, or Raised when
\* the comparison rain > 5 meets a null entry.
Advice(text) == [raised |-> FALSE, text |-> text]

Raised == [raised |-> TRUE, text |-> ""]

WeatherUnavailable == "Weather data unavailable. Apply based on standard schedule."

get_fertilizer_timing_advice(forecast) ==
  IF forecast = None \/ "daily" \notin DOMAIN forecast
  THEN Advice(WeatherUnavailable)
  ELSE LET rain_forecast == IF "rain_sum" \in DOMAIN forecast.daily
                            THEN forecast.daily.rain_sum ELSE <<>>
           head == FirstThree(rain_forecast)
       IN  IF \E i \in 1..Len(head) : head[i] = None
           THEN Raised
           ELSE LET rainy_days == Cardinality({i \in 1..Len(head) : RGt(head[i], R(5, 1))})
                IN  IF rainy_days >= 2
                    THEN Advice("Heavy rain expected in next 3 days | Postpone top dressing application | Wait for dry weather to prevent nutrient loss")
                    ELSE IF rainy_days = 1
                    THEN Advice("Light rain expected | Safe to apply basal fertilizers | Delay top dressing by 2-3 days")
                    ELSE Advice("Good weather for fertilizer application | Apply as per schedule | Irrigate after top dressing if no rain expected")

\* ---------------------------------------------- soil improvement advisor
\* calculate_lime_requirement: the float difference and product of lines
\* 105 and 111, truncated by int().
calculate_lime_requirement(ph) ==
  LET ph_increase_needed == FSub(Double(R(65, 10)), Double(ph))
      lime_kg == FInt(FMul(ph_increase_needed, 1000))
      low == IF lime_kg > 500 THEN lime_kg ELSE 500
  IN  IF FNotPositive(ph_increase_needed) THEN 0
      ELSE IF low < 3000 THEN low ELSE 3000

calculate_gypsum_requirement_Inclusive(ph) ==
  IF RLe(ph, R(75, 10)) THEN 0
  ELSE IF RGe(ph, R(85, 10)) THEN 750
  ELSE IF RGe(ph, R(80, 10)) THEN 500
  ELSE 350

\* calculate_gypsum_requirement
calculate_gypsum_requirement(ph) ==
  IF RLe(ph, R(75, 10)) THEN 0
  ELSE IF RGt(ph, R(85, 10)) THEN 750
  ELSE IF RGt(ph, R(80, 10)) THEN 500
  ELSE 350

Improvement(issue, recommendation, quantity, purpose) ==
  [issue |-> issue, recommendation |-> recommendation,
   quantity |-> quantity, purpose |-> purpose]

\* Lines 25-42: what the pH rule appends.
PhAdvice(ph) ==
  IF RLt(ph, R(55, 10))
  THEN <<Improvement("Acidic Soil (pH < 5.5)", "Agricultural Lime (CaCO3)",
                     <<calculate_lime_requirement(ph), " kg/ha">>,
                     "Raise pH to neutral range (6.0-7.0), improve nutrient availability")>>
  ELSE IF RGt(ph, R(75, 10))
  THEN <<Improvement("Alkaline Soil (pH > 7.5)", "Gypsum (CaSO4.2H2O)",
                     <<calculate_gypsum_requirement(ph), " kg/ha">>,
                     "Lower pH, improve phosphorus availability, reduce sodicity")>>
  ELSE <<>>

\* Lines 45-51: what the salinity rule appends.
SalinityAdvice(ec) ==
  IF EcHigh(ec)
  THEN <<Improvement("High Salinity (EC > 2.0 dS/m)", "Gypsum + Leaching",
                     <<"500-750 kg/ha + 7.5cm irrigation">>,
                     "Displace sodium, improve soil structure, leach excess salts")>>
  ELSE <<>>

\* Lines 54-67: what the organic carbon rule appends.
OrganicAdvice(organic_carbon) ==
  IF organic_carbon # None /\ RLt(organic_carbon, R(5, 10))
  THEN <<Improvement("Low Organic Matter (OC < 0.5%)", "Farmyard Manure (FYM) or Compost",
                     <<"8-10 tonnes/ha">>,
                     "Improve soil structure, water retention, microbial activity")>>
  ELSE IF organic_carbon # None /\ RLe(R(5, 10), organic_carbon)
          /\ RLt(organic_carbon, R(75, 100))
  THEN <<Improvement("Moderate Organic Matter", "Farmyard Manure (FYM) or Vermicompost",
                     <<"5-7 tonnes/ha">>,
                     "Maintain soil health, enhance nutrient cycling")>>
  ELSE <<>>

\* Lines 70-76: what the phosphorus rule appends.
PhosphorusAdvice(phosphorus) ==
  IF phosphorus # None /\ RLt(phosphorus, R(10, 1))
  THEN <<Improvement("Very Low Phosphorus", "Rock Phosphate or Bone Meal",
                     <<"300-400 kg/ha">>,
                     "Long-term P availability, especially in acidic soils")>>
  ELSE <<>>

MultipleIssues_MoreThanTwo(improvements) == Len(improvements) > 2

\* Line 79.
MultipleIssues(improvements) == Len(improvements) >= 2

\* Lines 79-85: the list after the green manure rule.
GreenManure(improvements) ==
  IF MultipleIssues(improvements)
  THEN Append(improvements,
              Improvement("Multiple Soil Health Issues", "Green Manure (Dhaincha/Sunhemp)",
                          <<"20-25 kg seed/ha">>,
                          "Add organic matter, fix nitrogen, break pest cycles"))
  ELSE improvements

NoIssues_OrOne(improvements) == Len(improvements) <= 1

\* Line 88.
NoIssues(improvements) == improvements = <<>>

\* Lines 88-94: the list after the maintenance rule.
Maintenance(improvements) ==
  IF NoIssues(improvements)
  THEN Append(improvements,
              Improvement("Soil Health Maintenance", "Farmyard Manure (FYM)",
                          <<"3-5 tonnes/ha">>,
                          "Maintain optimal soil conditions, sustained productivity"))
  ELSE improvements

\* get_soil_improvements: the rules in evaluation order, from an empty list.
get_soil_improvements(ph, ec, organic_carbon, nitrogen, phosphorus, potassium) ==
  Maintenance(GreenManure(PhAdvice(ph) \o SalinityAdvice(ec)
                            \o OrganicAdvice(organic_carbon)
                            \o PhosphorusAdvice(phosphorus)))

\* ------------------------------------------------------- crop scheduler
get_rice_schedule ==
  <<
     [stage |-> "Basal (At transplanting)",
      time |-> "Day 0",
      fertilizer |-> "DAP + MOP",
      quantity_percent |-> R(100, 1),
      note |-> "Apply 1 day before transplanting"],
     [stage |-> "First Top Dressing",
      time |-> "20-25 days after transplanting",
      fertilizer |-> "Urea",
      quantity_percent |-> R(50, 1),
      note |-> "Apply during active tillering stage"],
     [stage |-> "Second Top Dressing",
      time |-> "40-45 days after transplanting",
      fertilizer |-> "Urea",
      quantity_percent |-> R(50, 1),
      note |-> "Apply before panicle initiation"]
  >>

get_wheat_schedule ==
  <<
     [stage |-> "Basal (At sowing)",
      time |-> "Day 0",
      fertilizer |-> "DAP + MOP + Urea (33%)",
      quantity_percent |-> R(33, 1),
      note |-> "Apply with seed drill or broadcast before sowing"],
     [stage |-> "Crown Root Initiation",
      time |-> "21 days after sowing",
      fertilizer |-> "Urea",
      quantity_percent |-> R(33, 1),
      note |-> "First irrigation + fertilizer application"],
     [stage |-> "Late Jointing/Booting",
      time |-> "40-45 days after sowing",
      fertilizer |-> "Urea",
      quantity_percent |-> R(34, 1),
      note |-> "Second irrigation + final N application"]
  >>

get_maize_schedule ==
  <<
     [stage |-> "Basal (At sowing)",
      time |-> "Day 0",
      fertilizer |-> "DAP + MOP",
      quantity_percent |-> R(100, 1),
      note |-> "Apply 5-7cm below and beside seed"],
     [stage |-> "Knee-High Stage",
      time |-> "25-30 days after sowing",
      fertilizer |-> "Urea",
      quantity_percent |-> R(50, 1),
      note |-> "Side dress before first irrigation"],
     [stage |-> "Pre-Tasseling",
      time |-> "45-50 days after sowing",
      fertilizer |-> "Urea",
      quantity_percent |-> R(50, 1),
      note |-> "Apply before flowering for good cob development"]
  >>

get_cotton_schedule ==
  <<
     [stage |-> "Basal (At sowing)",
      time |-> "Day 0",
      fertilizer |-> "DAP + MOP + Urea (25%)",
      quantity_percent |-> R(25, 1),
      note |-> "Apply in furrows before sowing"],
     [stage |-> "Square Formation",
      time |-> "30-35 days after sowing",
      fertilizer |-> "Urea",
      quantity_percent |-> R(75, 2),
      note |-> "Apply with first irrigation"],
     [stage |-> "Flowering Stage",
      time |-> "60-65 days after sowing",
      fertilizer |-> "Urea",
      quantity_percent |-> R(75, 2),
      note |-> "Apply during peak flowering"]
  >>

get_sugarcane_schedule ==
  <<
     [stage |-> "Basal (At planting)",
      time |-> "Day 0",
      fertilizer |-> "DAP + MOP",
      quantity_percent |-> R(100, 1),
      note |-> "Apply in furrows, mix with soil"],
     [stage |-> "Tillering Stage",
      time |-> "30-40 days after planting",
      fertilizer |-> "Urea",
      quantity_percent |-> R(50, 1),
      note |-> "Apply and earthing up"],
     [stage |-> "Grand Growth",
      time |-> "90-120 days after planting",
      fertilizer |-> "Urea",
      quantity_percent |-> R(50, 1),
      note |-> "Apply before rapid cane elongation"]
  >>

get_potato_schedule ==
  <<
     [stage |-> "Basal (At planting)",
      time |-> "Day 0",
      fertilizer |-> "DAP + MOP + Urea (33%)",
      quantity_percent |-> R(33, 1),
      note |-> "Apply in furrows, cover with soil"],
     [stage |-> "Earthing Up",
      time |-> "25-30 days after planting",
      fertilizer |-> "Urea",
      quantity_percent |-> R(33, 1),
      note |-> "Apply and earth up ridges"],
     [stage |-> "Tuber Bulking",
      time |-> "45-50 days after planting",
      fertilizer |-> "Urea + MOP",
      quantity_percent |-> R(34, 1),
      note |-> "Final application for tuber development"]
  >>

get_tomato_schedule_Short ==
  <<
     [stage |-> "Basal (Before transplanting)",
      time |-> "Day -1",
      fertilizer |-> "DAP + MOP",
      quantity_percent |-> R(100, 1),
      note |-> "Apply and incorporate into beds"],
     [stage |-> "Vegetative Growth",
      time |-> "15-20 days after transplanting",
      fertilizer |-> "Urea",
      quantity_percent |-> R(33, 1),
      note |-> "Apply around plants, avoid stem contact"],
     [stage |-> "Flowering & Fruiting",
      time |-> "35-40 days after transplanting",
      fertilizer |-> "Urea",
      quantity_percent |-> R(66, 1),
      note |-> "Split into 2 applications during fruit development"]
  >>

get_tomato_schedule ==
  <<
     [stage |-> "Basal (Before transplanting)",
      time |-> "Day -1",
      fertilizer |-> "DAP + MOP",
      quantity_percent |-> R(100, 1),
      note |-> "Apply and incorporate into beds"],
     [stage |-> "Vegetative Growth",
      time |-> "15-20 days after transplanting",
      fertilizer |-> "Urea",
      quantity_percent |-> R(33, 1),
      note |-> "Apply around plants, avoid stem contact"],
     [stage |-> "Flowering & Fruiting",
      time |-> "35-40 days after transplanting",
      fertilizer |-> "Urea",
      quantity_percent |-> R(67, 1),
      note |-> "Split into 2 applications during fruit development"]
  >>

get_default_schedule ==
  <<
     [stage |-> "Basal (At sowing/planting)",
      time |-> "Day 0",
      fertilizer |-> "DAP + MOP",
      quantity_percent |-> R(100, 1),
      note |-> "Apply before or at planting"],
     [stage |-> "First Top Dressing",
      time |-> "3-4 weeks after planting",
      fertilizer |-> "Urea",
      quantity_percent |-> R(50, 1),
      note |-> "Apply during active vegetative growth"],
     [stage |-> "Second Top Dressing",
      time |-> "6-7 weeks after planting",
      fertilizer |-> "Urea",
      quantity_percent |-> R(50, 1),
      note |-> "Apply before flowering/fruiting"]
  >>

ScheduleFor_NitrogenOnly(crop_lower, total_n, total_p, total_k) ==
  IF total_n = Zero THEN <<>> ELSE get_default_schedule

\* Lines 18-34: the first keyword found in the lower-cased name decides.
ScheduleFor(crop_lower, total_n, total_p, total_k) ==
  LET has(word) == Contains(crop_lower, Chars(word))
  IN  IF has("rice") \/ has("paddy") THEN get_rice_schedule
      ELSE IF has("wheat") THEN get_wheat_schedule
      ELSE IF has("maize") \/ has("corn") THEN get_maize_schedule
      ELSE IF has("cotton") THEN get_cotton_schedule
      ELSE IF has("sugarcane") THEN get_sugarcane_schedule
      ELSE IF has("potato") THEN get_potato_schedule
      ELSE IF has("tomato") THEN get_tomato_schedule
      ELSE get_default_schedule

\* get_application_schedule: dispatch on the lower-cased crop name.
get_application_schedule(crop_name, total_n, total_p, total_k) ==
  ScheduleFor(Lower(Chars(crop_name)), total_n, total_p, total_k)

\* ===================================================== the request handler
\* generate_recommendation, one request from the lookups to the commit.
VARIABLES
  pc,                           \* position in the handler
  farmer,                       \* row found for request.farmer_id, or None
  soil_data,                    \* row found for request.soil_data_id, or None
  required_n, required_p, required_k,
  n_remaining, p_remaining, k_remaining,      \* locals of recommend_fertilizers
  recommendations, total_cost,                \* locals of recommend_fertilizers
  fertilizer_recommendations,   \* the dict the engine returns
  fertilizer_names, total_quantity_per_hectare, total_quantity_per_acre,
  reasoning,                    \* the narrative, section after section
  weather,                      \* what the weather lookup met
  soil_improvements, application_schedule,
  recalculated_total_cost,
  idx,                          \* position of the repricing loop
  biofertilizer_needed,
  response,                     \* HTTP status of the reply, 0 while running
  db_recommendations,           \* committed FertilizerRecommendation rows
  call_args,                    \* arguments of a library call run on its own
  improvements,                 \* local list of get_soil_improvements
  crop_lower,                   \* local of get_application_schedule
  earlier_call,                 \* an earlier library call and what it returned
  reasoning_parts,              \* local list of generate_reasoning
  db_farmers, db_devices, db_soil_data, db_soil_health_cards,   \* committed rows
  utcnow                        \* the clock, in half seconds

vars ==
  << pc, farmer, soil_data, required_n, required_p, required_k,
     n_remaining, p_remaining, k_remaining, recommendations, total_cost,
     fertilizer_recommendations, fertilizer_names, total_quantity_per_hectare,
     total_quantity_per_acre, reasoning, weather, soil_improvements,
     application_schedule, recalculated_total_cost, idx, biofertilizer_needed,
     response, db_recommendations,
     call_args, improvements, crop_lower, earlier_call, reasoning_parts,
     catalog, db_farmers, db_devices, db_soil_data, db_soil_health_cards,
     utcnow >>

\* The tables the other routes write, and the clock.
store_vars ==
  << db_farmers, db_devices, db_soil_data, db_soil_health_cards, utcnow >>

\* State that the recommendation handler and the two advisors never write.
outside_vars == << reasoning_parts, catalog, store_vars >>

library_vars == << call_args, improvements, crop_lower, earlier_call >>

engine_vars ==
  << n_remaining, p_remaining, k_remaining, recommendations, total_cost >>

request_vars == << farmer, soil_data >>

target_vars == << required_n, required_p, required_k >>

format_vars ==
  << fertilizer_names, total_quantity_per_hectare, total_quantity_per_acre >>

advice_vars == << soil_improvements, application_schedule >>

\* ------------------------------------------------------------- inputs
Farmers ==
  { [id |-> 1, crop_name |-> "Basmati Rice", crop_season |-> "Kharif",
     field_area |-> R(1, 1), district |-> "Pune"],
    [id |-> 2, crop_name |-> "Wheat", crop_season |-> "Rabi",
     field_area |-> R(5, 2), district |-> "Satara"] }

SoilRow(id, n, p, k, ph, ec, moisture, oc) ==
  [id |-> id, nitrogen |-> n, phosphorus |-> p, potassium |-> k, ph |-> ph,
   ec |-> ec, moisture |-> moisture, organic_carbon |-> oc]

\* Soil rows with all of N, P, K and pH.
SoilSamples ==
  { SoilRow(1, R(15, 1), R(8, 1), R(12, 1), R(5, 1), R(12, 10), None, R(4, 10)),
    SoilRow(2, R(25, 1), R(20, 1), R(20, 1), R(68, 10), None, R(30, 1), None),
    SoilRow(3, R(40, 1), R(30, 1), R(30, 1), R(88, 10), R(25, 10), R(45, 1), R(75, 100)),
    SoilRow(4, R(25, 1), R(12, 1), R(20, 1), R(7, 1), Zero, None, R(1, 1)) }

\* Soil rows that lack a required value.
IncompleteSoilSamples ==
  { SoilRow(5, R(25, 1), R(20, 1), R(20, 1), None, None, None, None),
    SoilRow(6, None, R(20, 1), R(20, 1), R(68, 10), R(12, 10), R(30, 1), R(4, 10)),
    SoilRow(7, R(25, 1), None, R(20, 1), R(68, 10), None, None, None),
    SoilRow(8, R(25, 1), R(20, 1), None, R(5, 1), None, None, R(1, 1)) }

\* Raw outputs of the regression model, (N, P, K) in kg/ha, on a grid.
GridPredictions ==
  { << R(30 * i, 1), R(30 * j, 1), R(30 * k, 1) >> :
      i \in 0..MaxReq, j \in 0..MaxReq, k \in 0..1 }

\* Raw outputs off the grid: negative ones, positive ones too small for
\* the quantity they lead to to survive rounding to 2 decimals, and one
\* that asks for 50.002 kg of DAP per hectare.
EdgePredictions ==
  { << R(-5, 1), R(-5, 1), R(-5, 1) >>,
    << R(60, 1), R(-5, 1), R(30, 1) >>,
    << R(23, 31250), Zero, Zero >>,
    << Zero, R(23, 31250), R(3, 3125) >>,
    << Zero, R(23001, 1000), Zero >> }

RawPredictions == GridPredictions \cup EdgePredictions

RainSums ==
  { << Zero, Zero, Zero, R(9, 1) >>,
    << R(6, 1), Zero, R(5, 1) >>,
    << R(6, 1), R(12, 1), Zero >>,
    << Zero, None, Zero >> }

HttpOutcomes ==
  { [kind |-> k] : k \in HttpFailures }
  \cup { [kind |-> "json", body |-> [error |-> TRUE]] }
  \cup { [kind |-> "json", body |-> [daily |-> [rain_sum |-> rs]]] : rs \in RainSums }

\* The relative import of the weather service either resolves or raises,
\* depending on the package the route module was loaded in.
WeatherOutcomes ==
  { [import |-> "error"] }
  \cup { [import |-> "ok", http |-> h] : h \in HttpOutcomes }

NoRecommendations ==
  [fertilizers |-> <<>>, total_cost |-> Zero,
   application_timing |-> <<>>, application_method |-> <<>>]

\* No library call is run on its own.
NoCall ==
  /\ call_args = None
  /\ improvements = <<>>
  /\ crop_lower = <<>>
  /\ earlier_call = None
  /\ reasoning_parts = <<>>

\* The other routes have stored nothing; the rows a request finds are
\* given with the request.
EmptyStore ==
  /\ db_farmers = {} /\ db_devices = {} /\ db_soil_data = {}
  /\ db_soil_health_cards = {}
  /\ utcnow = 0

Init ==
  /\ pc = "start"
  /\ farmer \in Farmers \cup {None}
  /\ soil_data \in SoilSamples \cup IncompleteSoilSamples \cup {None}
  /\ required_n = Zero /\ required_p = Zero /\ required_k = Zero
  /\ n_remaining = Zero /\ p_remaining = Zero /\ k_remaining = Zero
  /\ recommendations = <<>> /\ total_cost = Zero
  /\ fertilizer_recommendations = NoRecommendations
  /\ fertilizer_names = <<>>
  /\ total_quantity_per_hectare = Zero /\ total_quantity_per_acre = Zero
  /\ reasoning = <<>>
  /\ weather = [import |-> "pending"]
  /\ soil_improvements = <<>> /\ application_schedule = <<>>
  /\ recalculated_total_cost = Zero
  /\ idx = 0
  /\ biofertilizer_needed = FALSE
  /\ response = [status |-> 0]
  /\ db_recommendations = <<>>
  /\ NoCall
  /\ catalog = FERTILIZERS
  /\ EmptyStore

\* ------------------------------------------------------------- actions
RMax(x, y) == IF RLt(x, y) THEN y ELSE x

Reject(status, detail) ==
  /\ response' = [status |-> status, detail |-> detail]
  /\ pc' = "rejected"

HasRequiredValues_WithoutPh(soil) ==
  /\ soil.nitrogen # None
  /\ soil.phosphorus # None
  /\ soil.potassium # None

\* Lines 44-49: the soil row has all of N, P, K and pH.
HasRequiredValues(soil) ==
  /\ soil.nitrogen # None
  /\ soil.phosphorus # None
  /\ soil.potassium # None
  /\ soil.ph # None

\* Lines 27-53: the farmer and soil lookups and the N/P/K/pH check.
ValidateRequest ==
  /\ pc = "start"
  /\ IF farmer = None THEN Reject(404, "Farmer not found")
     ELSE IF soil_data = None THEN Reject(404, "Soil data not found")
     ELSE IF ~HasRequiredValues(soil_data)
     THEN Reject(400, "Soil data must have N, P, K, and pH values for generating recommendations")
     ELSE pc' = "predict" /\ UNCHANGED response
  /\ UNCHANGED << request_vars, outside_vars, library_vars, target_vars, engine_vars, fertilizer_recommendations,
                  format_vars, reasoning, weather, advice_vars,
                  recalculated_total_cost, idx, biofertilizer_needed,
                  db_recommendations >>

\* Lines 55-68: predict_nutrients clamps each raw prediction at 0.
PredictNutrients ==
  /\ pc = "predict"
  /\ \E prediction \in RawPredictions :
       /\ required_n' = RMax(Zero, prediction[1])
       /\ required_p' = RMax(Zero, prediction[2])
       /\ required_k' = RMax(Zero, prediction[3])
  /\ pc' = "alloc_start"
  /\ UNCHANGED << request_vars, outside_vars, library_vars, engine_vars, fertilizer_recommendations,
                  format_vars, reasoning, weather, advice_vars,
                  recalculated_total_cost, idx, biofertilizer_needed,
                  response, db_recommendations >>

\* recommend_fertilizers, lines 61-66.
AllocStart ==
  /\ pc = "alloc_start"
  /\ recommendations' = <<>>
  /\ total_cost' = Zero
  /\ n_remaining' = required_n
  /\ p_remaining' = required_p
  /\ k_remaining' = required_k
  /\ pc' = "alloc_dap"
  /\ UNCHANGED << request_vars, outside_vars, library_vars, target_vars, fertilizer_recommendations,
                  format_vars, reasoning, weather, advice_vars,
                  recalculated_total_cost, idx, biofertilizer_needed,
                  response, db_recommendations >>

\* recommend_fertilizers, step 1 (lines 68-85).
AllocDAP ==
  /\ pc = "alloc_dap"
  /\ IF NeedsDAP(p_remaining)
     THEN /\ recommendations' =
               Append(recommendations, DapItem(p_remaining, farmer.field_area))
          /\ total_cost' = RAdd(total_cost,
               RMul(dap_needed_kg(p_remaining), FirstStartingWith("DAP").cost_per_kg))
          /\ n_remaining' = RSub(n_remaining, n_from_dap(dap_needed_kg(p_remaining)))
          /\ p_remaining' = Zero
     ELSE UNCHANGED << recommendations, total_cost, n_remaining, p_remaining >>
  /\ pc' = "alloc_mop"
  /\ UNCHANGED << request_vars, outside_vars, library_vars, target_vars, k_remaining, fertilizer_recommendations,
                  format_vars, reasoning, weather, advice_vars,
                  recalculated_total_cost, idx, biofertilizer_needed,
                  response, db_recommendations >>

\* recommend_fertilizers, step 2 (lines 87-102).
AllocMOP ==
  /\ pc = "alloc_mop"
  /\ IF NeedsMOP(k_remaining)
     THEN /\ recommendations' =
               Append(recommendations, MopItem(k_remaining, farmer.field_area))
          /\ total_cost' = RAdd(total_cost,
               RMul(mop_needed_kg(k_remaining), FirstStartingWith("MOP").cost_per_kg))
          /\ k_remaining' = Zero
     ELSE UNCHANGED << recommendations, total_cost, k_remaining >>
  /\ pc' = "alloc_urea"
  /\ UNCHANGED << request_vars, outside_vars, library_vars, target_vars, n_remaining, p_remaining,
                  fertilizer_recommendations,
                  format_vars, reasoning, weather, advice_vars,
                  recalculated_total_cost, idx, biofertilizer_needed,
                  response, db_recommendations >>

\* recommend_fertilizers, step 3 (lines 104-119).
AllocUrea ==
  /\ pc = "alloc_urea"
  /\ IF NeedsUrea(n_remaining)
     THEN /\ recommendations' =
               Append(recommendations, UreaItem(n_remaining, farmer.field_area))
          /\ total_cost' = RAdd(total_cost,
               RMul(urea_needed_kg(n_remaining), FirstNamed("Urea").cost_per_kg))
          /\ n_remaining' = Zero
     ELSE UNCHANGED << recommendations, total_cost, n_remaining >>
  /\ pc' = "alloc_return"
  /\ UNCHANGED << request_vars, outside_vars, library_vars, target_vars, p_remaining, k_remaining,
                  fertilizer_recommendations,
                  format_vars, reasoning, weather, advice_vars,
                  recalculated_total_cost, idx, biofertilizer_needed,
                  response, db_recommendations >>

\* recommend_fertilizers, lines 121-130: the returned dict.
AllocReturn ==
  /\ pc = "alloc_return"
  /\ fertilizer_recommendations' =
       [fertilizers |-> recommendations,
        total_cost |-> Round(total_cost, 2),
        application_timing |-> get_application_timing(required_n, required_p, required_k),
        application_method |-> get_application_method]
  /\ pc' = "format"
  /\ UNCHANGED << request_vars, outside_vars, library_vars, target_vars, engine_vars,
                  format_vars, reasoning, weather, advice_vars,
                  recalculated_total_cost, idx, biofertilizer_needed,
                  response, db_recommendations >>

\* Lines 79-82: the names (joined with ", ") and the summed quantities.
FormatTotals ==
  /\ pc = "format"
  /\ LET ferts == fertilizer_recommendations.fertilizers
         per_hectare == RSum([i \in 1..Len(ferts) |-> ferts[i].quantity_kg_per_hectare])
     IN  /\ fertilizer_names' = [i \in 1..Len(ferts) |-> ferts[i].fertilizer]
         /\ total_quantity_per_hectare' = per_hectare
         /\ total_quantity_per_acre' = RMul(per_hectare, PerAcre)
  /\ pc' = "reasoning"
  /\ UNCHANGED << request_vars, outside_vars, library_vars, target_vars, engine_vars, fertilizer_recommendations,
                  reasoning, weather, advice_vars,
                  recalculated_total_cost, idx, biofertilizer_needed,
                  response, db_recommendations >>

\* Lines 84-103: the soil analysis, then the fertilizer summary.
BuildReasoning ==
  /\ pc = "reasoning"
  /\ reasoning' =
       << [section |-> "analysis",
           body |-> generate_reasoning(soil_data, farmer.crop_name, farmer.crop_season,
                                       required_n, required_p, required_k)],
          [section |-> "summary",
           body |-> generate_recommendation_summary(fertilizer_recommendations)] >>
  /\ pc' = "weather"
  /\ UNCHANGED << request_vars, outside_vars, library_vars, target_vars, engine_vars, fertilizer_recommendations,
                  format_vars, weather, advice_vars,
                  recalculated_total_cost, idx, biofertilizer_needed,
                  response, db_recommendations >>

\* Lines 105-117: the optional weather advisory; any exception is swallowed.
WeatherAdvice ==
  /\ pc = "weather"
  /\ \E w \in WeatherOutcomes :
       /\ weather' = w
       /\ IF w.import = "error"
          THEN UNCHANGED reasoning
          ELSE LET coords == get_location_coords(farmer.district)
                   weather_advice == get_fertilizer_timing_advice(get_forecast(w.http))
               IN  IF /\ ~weather_advice.raised
                      /\ weather_advice.text # ""
                      /\ weather_advice.text # "Weather data unavailable"
                   THEN reasoning' = Append(reasoning,
                          [section |-> "weather_advisory", body |-> weather_advice.text])
                   ELSE UNCHANGED reasoning
  /\ pc' = "improvements"
  /\ UNCHANGED << request_vars, outside_vars, library_vars, target_vars, engine_vars, fertilizer_recommendations,
                  format_vars, advice_vars,
                  recalculated_total_cost, idx, biofertilizer_needed,
                  response, db_recommendations >>

\* Lines 119-127.
SoilImprovements ==
  /\ pc = "improvements"
  /\ soil_improvements' =
       get_soil_improvements(soil_data.ph, soil_data.ec, soil_data.organic_carbon,
                             soil_data.nitrogen, soil_data.phosphorus, soil_data.potassium)
  /\ pc' = "schedule"
  /\ UNCHANGED << request_vars, outside_vars, library_vars, target_vars, engine_vars, fertilizer_recommendations,
                  format_vars, reasoning, weather, application_schedule,
                  recalculated_total_cost, idx, biofertilizer_needed,
                  response, db_recommendations >>

ApplicationSchedule_TagsItems ==
  /\ pc = "schedule"
  /\ application_schedule' =
       get_application_schedule(farmer.crop_name, required_n, required_p, required_k)
  /\ fertilizer_recommendations' =
       [fertilizer_recommendations EXCEPT
          !.fertilizers = [i \in 1..Len(@) |->
                             ("application_stage" :> application_schedule'[1].stage) @@ @[i]]]
  /\ pc' = "reprice_start"
  /\ UNCHANGED << request_vars, outside_vars, library_vars, target_vars, engine_vars,
                  format_vars, reasoning, weather, soil_improvements,
                  recalculated_total_cost, idx, biofertilizer_needed,
                  response, db_recommendations >>

\* Lines 129-135.
ApplicationSchedule ==
  /\ pc = "schedule"
  /\ application_schedule' =
       get_application_schedule(farmer.crop_name, required_n, required_p, required_k)
  /\ pc' = "reprice_start"
  /\ UNCHANGED << request_vars, outside_vars, library_vars, target_vars, engine_vars, fertilizer_recommendations,
                  format_vars, reasoning, weather, soil_improvements,
                  recalculated_total_cost, idx, biofertilizer_needed,
                  response, db_recommendations >>

RepriceItem_WholeBags(fert, field_area) ==
  LET fert_name == BaseName(fert.fertilizer)
      item == IF "quantity_total" \in DOMAIN fert THEN fert
              ELSE ("quantity_total" :> RMul(fert.quantity_kg_per_hectare, field_area)) @@ fert
      bags_required == Ceil(RDiv(item.quantity_total, R(50, 1)))
  IN  IF InPriceTable(fert_name)
      THEN ("price_per_50kg" :> R(PricePer50kg(fert_name), 1)) @@
           ("is_verified" :> TRUE) @@
           [item EXCEPT !.cost = R(bags_required * PricePer50kg(fert_name), 1),
                        !.quantity_total = R(bags_required * 50, 1)]
      ELSE ("price_per_50kg" :> PriceNotAvailable) @@
           ("is_verified" :> FALSE) @@
           ("note" :> "Price not verified by Govt of India") @@
           [item EXCEPT !.cost = Zero]

RepriceItem_KeepsRoughCost(fert, field_area) ==
  LET fert_name == BaseName(fert.fertilizer)
      item == IF "quantity_total" \in DOMAIN fert THEN fert
              ELSE ("quantity_total" :> RMul(fert.quantity_kg_per_hectare, field_area)) @@ fert
      bags_required == Ceil(RDiv(item.quantity_total, R(50, 1)))
  IN  IF InPriceTable(fert_name)
      THEN ("price_per_50kg" :> R(PricePer50kg(fert_name), 1)) @@
           ("is_verified" :> TRUE) @@
           [item EXCEPT !.cost = R(bags_required * PricePer50kg(fert_name), 1)]
      ELSE ("price_per_50kg" :> PriceNotAvailable) @@
           ("is_verified" :> FALSE) @@
           ("note" :> "Price not verified by Govt of India") @@
           item

\* Lines 144-163 for one line item: the repriced item.
RepriceItem(fert, field_area) ==
  LET fert_name == BaseName(fert.fertilizer)
      item == IF "quantity_total" \in DOMAIN fert THEN fert
              ELSE ("quantity_total" :> RMul(fert.quantity_kg_per_hectare, field_area)) @@ fert
      bags_required == Ceil(RDiv(item.quantity_total, R(50, 1)))
  IN  IF InPriceTable(fert_name)
      THEN ("price_per_50kg" :> R(PricePer50kg(fert_name), 1)) @@
           ("is_verified" :> TRUE) @@
           [item EXCEPT !.cost = R(bags_required * PricePer50kg(fert_name), 1)]
      ELSE ("price_per_50kg" :> PriceNotAvailable) @@
           ("is_verified" :> FALSE) @@
           ("note" :> "Price not verified by Govt of India") @@
           [item EXCEPT !.cost = Zero]

AddedToTotal_PriceOnly(repriced) ==
  IF repriced.is_verified THEN repriced.price_per_50kg ELSE Zero

\* Line 157: what one repriced item adds to the running total.
AddedToTotal(repriced) == IF repriced.is_verified THEN repriced.cost ELSE Zero

BiofertilizerNeeded_Inclusive(organic_carbon) ==
  organic_carbon # None /\ RLe(organic_carbon, R(75, 100))

\* Line 167.
BiofertilizerNeeded(organic_carbon) ==
  organic_carbon # None /\ RLt(organic_carbon, R(75, 100))

\* Lines 172-182: the appended dict.
BiofertilizerItem(field_area) ==
  [fertilizer |-> "Biofertilizer (Rhizobium/Azotobacter)",
   quantity_kg_per_hectare |-> R(2, 1),
   quantity_kg_per_acre |-> R(81, 100),
   quantity_total |-> RMul(R(2, 1), field_area),
   provides |-> <<"Nitrogen fixing, Organic carbon boost">>,
   cost |-> Zero,
   price_per_50kg |-> PriceNotAvailable,
   is_verified |-> FALSE,
   application_stage |-> "Seed Treatment"]

\* Lines 137-141.
RepriceStart ==
  /\ pc = "reprice_start"
  /\ recalculated_total_cost' = Zero
  /\ idx' = 1
  /\ pc' = "reprice"
  /\ UNCHANGED << request_vars, outside_vars, library_vars, target_vars, engine_vars, fertilizer_recommendations,
                  format_vars, reasoning, weather, advice_vars,
                  biofertilizer_needed, response, db_recommendations >>

\* Lines 143-163: one iteration of the repricing loop.
RepriceNext ==
  /\ pc = "reprice"
  /\ idx <= Len(fertilizer_recommendations.fertilizers)
  /\ LET repriced == RepriceItem(fertilizer_recommendations.fertilizers[idx],
                                 farmer.field_area)
     IN  /\ fertilizer_recommendations' =
               [fertilizer_recommendations EXCEPT !.fertilizers[idx] = repriced]
         /\ recalculated_total_cost' =
               RAdd(recalculated_total_cost, AddedToTotal(repriced))
  /\ idx' = idx + 1
  /\ UNCHANGED << pc, request_vars, outside_vars, library_vars, target_vars, engine_vars,
                  format_vars, reasoning, weather, advice_vars,
                  biofertilizer_needed, response, db_recommendations >>

\* Lines 165-182, entered when the loop is exhausted.
Biofertilizer ==
  /\ pc = "reprice"
  /\ idx > Len(fertilizer_recommendations.fertilizers)
  /\ IF BiofertilizerNeeded(soil_data.organic_carbon)
     THEN /\ biofertilizer_needed' = TRUE
          /\ fertilizer_recommendations' =
               [fertilizer_recommendations EXCEPT
                  !.fertilizers = Append(@, BiofertilizerItem(farmer.field_area))]
     ELSE /\ biofertilizer_needed' = FALSE
          /\ UNCHANGED fertilizer_recommendations
  /\ pc' = "update_total"
  /\ UNCHANGED << request_vars, outside_vars, library_vars, target_vars, engine_vars,
                  format_vars, reasoning, weather, advice_vars,
                  recalculated_total_cost, idx, response, db_recommendations >>

\* Lines 184-185.
UpdateTotal ==
  /\ pc = "update_total"
  /\ fertilizer_recommendations' =
       [fertilizer_recommendations EXCEPT !.total_cost = recalculated_total_cost]
  /\ pc' = "persist"
  /\ UNCHANGED << request_vars, outside_vars, library_vars, target_vars, engine_vars,
                  format_vars, reasoning, weather, advice_vars,
                  recalculated_total_cost, idx, biofertilizer_needed,
                  response, db_recommendations >>

\* Lines 189-194.
AdditionalData ==
  [soil_improvements |-> soil_improvements,
   application_schedule |-> application_schedule,
   fertilizer_details |-> fertilizer_recommendations.fertilizers,
   biofertilizer_recommended |-> biofertilizer_needed]

\* Lines 197-210: the row handed to the session.
RecommendationRow ==
  [farmer_id |-> farmer.id,
   soil_data_id |-> soil_data.id,
   required_nitrogen |-> required_n,
   required_phosphorus |-> required_p,
   required_potassium |-> required_k,
   fertilizer_name |-> fertilizer_names,
   quantity_kg_per_hectare |-> Round(total_quantity_per_hectare, 2),
   quantity_kg_per_acre |-> Round(total_quantity_per_acre, 2),
   application_timing |-> fertilizer_recommendations.application_timing,
   application_method |-> fertilizer_recommendations.application_method,
   estimated_cost |-> fertilizer_recommendations.total_cost,
   reasoning |-> Append(reasoning, [section |-> "additional_data", body |-> AdditionalData])]

\* Lines 187-216: build the row, add, commit, reply 201.
Persist ==
  /\ pc = "persist"
  /\ db_recommendations' = Append(db_recommendations, RecommendationRow)
  /\ response' = [status |-> 201, detail |-> "created"]
  /\ pc' = "done"
  /\ UNCHANGED << request_vars, outside_vars, library_vars, target_vars, engine_vars, fertilizer_recommendations,
                  format_vars, reasoning, weather, advice_vars,
                  recalculated_total_cost, idx, biofertilizer_needed >>

Next ==
  \/ ValidateRequest
  \/ PredictNutrients
  \/ AllocStart
  \/ AllocDAP
  \/ AllocMOP
  \/ AllocUrea
  \/ AllocReturn
  \/ FormatTotals
  \/ BuildReasoning
  \/ WeatherAdvice
  \/ SoilImprovements
  \/ ApplicationSchedule
  \/ RepriceStart
  \/ RepriceNext
  \/ Biofertilizer
  \/ UpdateTotal
  \/ Persist

Spec == Init /\ [][Next]_vars

\* ============================================ the handler after the engine
\* The handler from line 79 on, entered with any list of line items an
\* engine may hand over ("logic from ML engine might vary", line 146):
\* catalog products with and without a parenthetical suffix, with and
\* without a verified price, one missing quantity_total, and a product
\* named "NPK 29-5-5" that neither table knows.
WithoutKey(rec, key) == [f \in DOMAIN rec \ {key} |-> rec[f]]

StubItems(field_area) ==
  { LineItem("DAP (Diammonium Phosphate)", R(3000, 23), field_area,
             <<R(235, 10), " kg N + ", R(60, 1), " kg P2O5">>, R(27, 1)),
    LineItem("Urea", R(100, 1), field_area, <<R(46, 1), " kg N">>, R(6, 1)),
    LineItem("NPK 10-26-26", R(2001, 40), field_area, <<"N + P2O5 + K2O">>, R(22, 1)),
    LineItem("NPK 29-5-5", R(100, 1), field_area, <<"N + P2O5 + K2O">>, R(20, 1)),
    WithoutKey(LineItem("SSP (Single Super Phosphate)", R(151, 2), field_area,
                        <<R(121, 10), " kg P2O5">>, R(8, 1)),
               "quantity_total") }

StubLists(field_area) ==
  UNION { [1..len -> StubItems(field_area)] : len \in 0..MaxItems }

StubEngineResult(items) ==
  [fertilizers |-> items,
   total_cost |-> Round(RSum([i \in 1..Len(items) |-> items[i].cost]), 2),
   application_timing |-> get_application_timing(R(120, 1), R(60, 1), R(30, 1)),
   application_method |-> get_application_method]

InitReprice ==
  /\ pc = "format"
  /\ farmer \in Farmers
  /\ soil_data \in SoilSamples
  /\ required_n = R(120, 1) /\ required_p = R(60, 1) /\ required_k = R(30, 1)
  /\ n_remaining = Zero /\ p_remaining = Zero /\ k_remaining = Zero
  /\ recommendations = <<>> /\ total_cost = Zero
  /\ fertilizer_recommendations \in
       { StubEngineResult(items) : items \in StubLists(farmer.field_area) }
  /\ fertilizer_names = <<>>
  /\ total_quantity_per_hectare = Zero /\ total_quantity_per_acre = Zero
  /\ reasoning = <<>>
  /\ weather = [import |-> "pending"]
  /\ soil_improvements = <<>> /\ application_schedule = <<>>
  /\ recalculated_total_cost = Zero
  /\ idx = 0
  /\ biofertilizer_needed = FALSE
  /\ response = [status |-> 0]
  /\ db_recommendations = <<>>
  /\ NoCall
  /\ catalog = FERTILIZERS
  /\ EmptyStore

NextReprice ==
  \/ FormatTotals
  \/ BuildReasoning
  \/ WeatherAdvice
  \/ SoilImprovements
  \/ ApplicationSchedule
  \/ RepriceStart
  \/ RepriceNext
  \/ Biofertilizer
  \/ UpdateTotal
  \/ Persist

SpecReprice == InitReprice /\ [][NextReprice]_vars

\* ======================================= the soil improvement advisor alone
\* get_soil_improvements called again and again, each call run line by
\* line on its local list; one earlier call is remembered with its result.
AdvisorArgs(ph, ec, organic_carbon, phosphorus) ==
  [ph |-> ph, ec |-> ec, organic_carbon |-> organic_carbon,
   nitrogen |-> R(25, 1), phosphorus |-> phosphorus, potassium |-> R(20, 1)]

\* pH values on both sides of every threshold, and acidic ones whose
\* distance to 6.5 has no exact float.
PhValues ==
  { R(3, 1), R(35, 10), R(44, 10), R(5, 1), R(54, 10), R(54321, 10000),
    R(55, 10), R(68, 10), R(75, 10), R(78, 10), R(8, 1), R(83, 10),
    R(85, 10), R(88, 10) }

AdvisorInputs ==
  { AdvisorArgs(ph, None, None, R(12, 1)) : ph \in PhValues }
  \cup { AdvisorArgs(ph, ec, oc, p) :
           ph \in { R(5, 1), R(68, 10), R(88, 10) },
           ec \in { None, R(25, 10) },
           oc \in { None, R(4, 10), R(6, 10) },
           p \in { R(8, 1), R(12, 1) } }
  \cup { AdvisorArgs(R(68, 10), ec, None, R(12, 1)) : ec \in { Zero, R(2, 1) } }
  \cup { AdvisorArgs(R(68, 10), None, oc, R(12, 1)) : oc \in { R(5, 10), R(75, 100) } }
  \cup { AdvisorArgs(R(68, 10), None, None, p) : p \in { None, R(10, 1) } }

handler_vars ==
  << request_vars, outside_vars, target_vars, engine_vars, fertilizer_recommendations,
     format_vars, reasoning, weather, application_schedule,
     recalculated_total_cost, idx, biofertilizer_needed, response,
     db_recommendations >>

NewList_Kept(previous) == previous

\* Line 22: improvements = [].
NewList(previous) == <<>>

\* Lines 8-22: a call with its arguments bound.
AdvisorCall ==
  /\ pc = "advisor_idle"
  /\ call_args' \in AdvisorInputs
  /\ improvements' = NewList(improvements)
  /\ pc' = "advisor_ph"
  /\ UNCHANGED << handler_vars, soil_improvements, crop_lower, earlier_call >>

\* Lines 25-42.
AdvisorPh ==
  /\ pc = "advisor_ph"
  /\ improvements' = improvements \o PhAdvice(call_args.ph)
  /\ pc' = "advisor_ec"
  /\ UNCHANGED << handler_vars, soil_improvements, call_args, crop_lower, earlier_call >>

\* Lines 45-51.
AdvisorSalinity ==
  /\ pc = "advisor_ec"
  /\ improvements' = improvements \o SalinityAdvice(call_args.ec)
  /\ pc' = "advisor_oc"
  /\ UNCHANGED << handler_vars, soil_improvements, call_args, crop_lower, earlier_call >>

\* Lines 54-67.
AdvisorOrganic ==
  /\ pc = "advisor_oc"
  /\ improvements' = improvements \o OrganicAdvice(call_args.organic_carbon)
  /\ pc' = "advisor_p"
  /\ UNCHANGED << handler_vars, soil_improvements, call_args, crop_lower, earlier_call >>

\* Lines 70-76.
AdvisorPhosphorus ==
  /\ pc = "advisor_p"
  /\ improvements' = improvements \o PhosphorusAdvice(call_args.phosphorus)
  /\ pc' = "advisor_green"
  /\ UNCHANGED << handler_vars, soil_improvements, call_args, crop_lower, earlier_call >>

\* Lines 79-85.
AdvisorGreenManure ==
  /\ pc = "advisor_green"
  /\ improvements' = GreenManure(improvements)
  /\ pc' = "advisor_maintenance"
  /\ UNCHANGED << handler_vars, soil_improvements, call_args, crop_lower, earlier_call >>

\* Lines 88-94.
AdvisorMaintenance ==
  /\ pc = "advisor_maintenance"
  /\ improvements' = Maintenance(improvements)
  /\ pc' = "advisor_return"
  /\ UNCHANGED << handler_vars, soil_improvements, call_args, crop_lower, earlier_call >>

\* Line 96: the list is returned; this call may be the one remembered.
AdvisorReturn ==
  /\ pc = "advisor_return"
  /\ earlier_call' \in { earlier_call, [args |-> call_args, result |-> improvements] }
  /\ pc' = "advisor_idle"
  /\ UNCHANGED << handler_vars, soil_improvements, call_args, improvements, crop_lower >>

InitAdvisor ==
  /\ pc = "advisor_idle"
  /\ farmer = None /\ soil_data = None
  /\ required_n = Zero /\ required_p = Zero /\ required_k = Zero
  /\ n_remaining = Zero /\ p_remaining = Zero /\ k_remaining = Zero
  /\ recommendations = <<>> /\ total_cost = Zero
  /\ fertilizer_recommendations = NoRecommendations
  /\ fertilizer_names = <<>>
  /\ total_quantity_per_hectare = Zero /\ total_quantity_per_acre = Zero
  /\ reasoning = <<>>
  /\ weather = [import |-> "pending"]
  /\ soil_improvements = <<>> /\ application_schedule = <<>>
  /\ recalculated_total_cost = Zero
  /\ idx = 0
  /\ biofertilizer_needed = FALSE
  /\ response = [status |-> 0]
  /\ db_recommendations = <<>>
  /\ NoCall
  /\ catalog = FERTILIZERS
  /\ EmptyStore

NextAdvisor ==
  \/ AdvisorCall
  \/ AdvisorPh
  \/ AdvisorSalinity
  \/ AdvisorOrganic
  \/ AdvisorPhosphorus
  \/ AdvisorGreenManure
  \/ AdvisorMaintenance
  \/ AdvisorReturn

SpecAdvisor == InitAdvisor /\ [][NextAdvisor]_vars

\* ================================================ the crop scheduler alone
\* get_application_schedule called again and again; one earlier call is
\* remembered with its result.
CropNames ==
  { "Basmati Rice", "PADDY", "Wheat", "Wheat/Rice", "Maize", "Sweet Corn",
    "Cotton", "Sugarcane", "Sugar cane", "Potato", "Tomato", "Tomato/Potato",
    "Buckwheat", "Millet", "" }

Totals ==
  { << Zero, Zero, Zero >>,
    << R(30, 1), Zero, Zero >>,
    << R(120, 1), R(60, 1), R(30, 1) >> }

ScheduleInputs ==
  { [crop_name |-> c, total_n |-> t[1], total_p |-> t[2], total_k |-> t[3]] :
      c \in CropNames, t \in Totals }

\* Lines 8-15: a call with its arguments bound and the name lower-cased.
ScheduleCall ==
  /\ pc = "schedule_idle"
  /\ \E args \in ScheduleInputs :
       /\ call_args' = args
       /\ crop_lower' = Lower(Chars(args.crop_name))
  /\ pc' = "schedule_dispatch"
  /\ UNCHANGED << handler_vars, soil_improvements, improvements, earlier_call >>

\* Lines 18-34: the value of the return statement that is reached.
ScheduleDispatch ==
  /\ pc = "schedule_dispatch"
  /\ application_schedule' =
       ScheduleFor(crop_lower, call_args.total_n, call_args.total_p, call_args.total_k)
  /\ pc' = "schedule_return"
  /\ UNCHANGED << request_vars, outside_vars, target_vars, engine_vars, fertilizer_recommendations,
                  format_vars, reasoning, weather, recalculated_total_cost, idx,
                  biofertilizer_needed, response, db_recommendations,
                  soil_improvements, library_vars >>

\* The caller has the list; this call may be the one remembered.
ScheduleReturn ==
  /\ pc = "schedule_return"
  /\ earlier_call' \in { earlier_call,
                         [args |-> call_args, result |-> application_schedule] }
  /\ pc' = "schedule_idle"
  /\ UNCHANGED << handler_vars, soil_improvements, call_args, improvements, crop_lower >>

InitSchedule ==
  /\ pc = "schedule_idle"
  /\ farmer = None /\ soil_data = None
  /\ required_n = Zero /\ required_p = Zero /\ required_k = Zero
  /\ n_remaining = Zero /\ p_remaining = Zero /\ k_remaining = Zero
  /\ recommendations = <<>> /\ total_cost = Zero
  /\ fertilizer_recommendations = NoRecommendations
  /\ fertilizer_names = <<>>
  /\ total_quantity_per_hectare = Zero /\ total_quantity_per_acre = Zero
  /\ reasoning = <<>>
  /\ weather = [import |-> "pending"]
  /\ soil_improvements = <<>> /\ application_schedule = <<>>
  /\ recalculated_total_cost = Zero
  /\ idx = 0
  /\ biofertilizer_needed = FALSE
  /\ response = [status |-> 0]
  /\ db_recommendations = <<>>
  /\ NoCall
  /\ catalog = FERTILIZERS
  /\ EmptyStore

NextSchedule ==
  \/ ScheduleCall
  \/ ScheduleDispatch
  \/ ScheduleReturn

SpecSchedule == InitSchedule /\ [][NextSchedule]_vars

\* =========================================== the reasoning narrative alone
\* NutrientPredictor.generate_reasoning called again and again, each call
\* run line by line on its local list of parts.
ReasoningArgs(nitrogen, phosphorus, potassium, ph, ec) ==
  [soil_data |-> [nitrogen |-> nitrogen, phosphorus |-> phosphorus,
                  potassium |-> potassium, ph |-> ph, ec |-> ec],
   crop |-> "Wheat", season |-> "rabi",
   required_n |-> R(120, 1), required_p |-> R(60, 1), required_k |-> R(30, 1)]

\* Values on both sides of every threshold and the thresholds themselves.
NitrogenValues == { Zero, R(1999, 100), R(20, 1), R(2999, 100), R(30, 1), R(45, 1) }

PhosphorusValues == { R(1499, 100), R(15, 1), R(2499, 100), R(25, 1) }

PotassiumValues == { Zero, R(15, 1), R(2499, 100), R(25, 1) }

NarrativePhValues == { R(549, 100), R(55, 10), R(75, 10), R(751, 100) }

EcValues == { None, Zero, R(2, 1), R(201, 100) }

ReasoningInputs ==
  { ReasoningArgs(n, R(15, 1), R(25, 1), ph, ec) :
      n \in NitrogenValues, ph \in NarrativePhValues, ec \in EcValues }
  \cup { ReasoningArgs(R(25, 1), p, k, R(68, 10), None) :
            p \in PhosphorusValues, k \in PotassiumValues }

\* One assessment line: what it is about, the value as printed with one
\* decimal, and the level the line states.
Assessment(about, value, level) ==
  [about |-> about, printed |-> Round(value, 1), level |-> level]

\* Lines 111-114: reasoning_parts = [] and the heading.
ReasoningCall ==
  /\ pc = "narrative_idle"
  /\ \E args \in ReasoningInputs :
       /\ call_args' = args
       /\ reasoning_parts' = << [about |-> "heading", crop |-> args.crop,
                                 season |-> args.season] >>
  /\ pc' = "narrative_nitrogen"
  /\ UNCHANGED << request_vars, catalog, store_vars, target_vars, engine_vars, fertilizer_recommendations,
                  format_vars, reasoning, weather, advice_vars,
                  recalculated_total_cost, idx, biofertilizer_needed, response,
                  db_recommendations, improvements, crop_lower, earlier_call >>

\* Lines 116-123.
ReasoningNitrogen ==
  /\ pc = "narrative_nitrogen"
  /\ reasoning_parts' =
       Append(reasoning_parts,
              Assessment("nitrogen", call_args.soil_data.nitrogen,
                         NitrogenLevel(call_args.soil_data.nitrogen)))
  /\ pc' = "narrative_phosphorus"
  /\ UNCHANGED << request_vars, catalog, store_vars, target_vars, engine_vars, fertilizer_recommendations,
                  format_vars, reasoning, weather, advice_vars,
                  recalculated_total_cost, idx, biofertilizer_needed, response,
                  db_recommendations, call_args, improvements, crop_lower,
                  earlier_call >>

\* Lines 125-132.
ReasoningPhosphorus ==
  /\ pc = "narrative_phosphorus"
  /\ reasoning_parts' =
       Append(reasoning_parts,
              Assessment("phosphorus", call_args.soil_data.phosphorus,
                         PhosphorusLevel(call_args.soil_data.phosphorus)))
  /\ pc' = "narrative_potassium"
  /\ UNCHANGED << request_vars, catalog, store_vars, target_vars, engine_vars, fertilizer_recommendations,
                  format_vars, reasoning, weather, advice_vars,
                  recalculated_total_cost, idx, biofertilizer_needed, response,
                  db_recommendations, call_args, improvements, crop_lower,
                  earlier_call >>

\* Lines 134-141.
ReasoningPotassium ==
  /\ pc = "narrative_potassium"
  /\ reasoning_parts' =
       Append(reasoning_parts,
              Assessment("potassium", call_args.soil_data.potassium,
                         PotassiumLevel(call_args.soil_data.potassium)))
  /\ pc' = "narrative_ph"
  /\ UNCHANGED << request_vars, catalog, store_vars, target_vars, engine_vars, fertilizer_recommendations,
                  format_vars, reasoning, weather, advice_vars,
                  recalculated_total_cost, idx, biofertilizer_needed, response,
                  db_recommendations, call_args, improvements, crop_lower,
                  earlier_call >>

\* Lines 143-150.
ReasoningPh ==
  /\ pc = "narrative_ph"
  /\ reasoning_parts' =
       Append(reasoning_parts,
              Assessment("ph", call_args.soil_data.ph,
                         PhLevel(call_args.soil_data.ph)))
  /\ pc' = "narrative_ec"
  /\ UNCHANGED << request_vars, catalog, store_vars, target_vars, engine_vars, fertilizer_recommendations,
                  format_vars, reasoning, weather, advice_vars,
                  recalculated_total_cost, idx, biofertilizer_needed, response,
                  db_recommendations, call_args, improvements, crop_lower,
                  earlier_call >>

\* Lines 152-155.
ReasoningEc ==
  /\ pc = "narrative_ec"
  /\ reasoning_parts' =
       IF EcHigh(call_args.soil_data.ec)
       THEN Append(reasoning_parts,
                   Assessment("ec", call_args.soil_data.ec, "HIGH"))
       ELSE reasoning_parts
  /\ pc' = "narrative_summary"
  /\ UNCHANGED << request_vars, catalog, store_vars, target_vars, engine_vars, fertilizer_recommendations,
                  format_vars, reasoning, weather, advice_vars,
                  recalculated_total_cost, idx, biofertilizer_needed, response,
                  db_recommendations, call_args, improvements, crop_lower,
                  earlier_call >>

\* Lines 157-161: the recommended nutrients, each printed with one decimal.
ReasoningSummary ==
  /\ pc = "narrative_summary"
  /\ reasoning_parts' =
       reasoning_parts \o
       << [about |-> "recommended"],
          [about |-> "required_n", printed |-> Round(call_args.required_n, 1)],
          [about |-> "required_p", printed |-> Round(call_args.required_p, 1)],
          [about |-> "required_k", printed |-> Round(call_args.required_k, 1)] >>
  /\ pc' = "narrative_return"
  /\ UNCHANGED << request_vars, catalog, store_vars, target_vars, engine_vars, fertilizer_recommendations,
                  format_vars, reasoning, weather, advice_vars,
                  recalculated_total_cost, idx, biofertilizer_needed, response,
                  db_recommendations, call_args, improvements, crop_lower,
                  earlier_call >>

\* Line 163: the parts are joined and returned to the caller.
ReasoningReturn ==
  /\ pc = "narrative_return"
  /\ pc' = "narrative_idle"
  /\ UNCHANGED << request_vars, outside_vars, target_vars, engine_vars,
                  fertilizer_recommendations, format_vars, reasoning, weather,
                  advice_vars, recalculated_total_cost, idx, biofertilizer_needed,
                  response, db_recommendations, library_vars >>

InitReasoning ==
  /\ pc = "narrative_idle"
  /\ farmer = None /\ soil_data = None
  /\ required_n = Zero /\ required_p = Zero /\ required_k = Zero
  /\ n_remaining = Zero /\ p_remaining = Zero /\ k_remaining = Zero
  /\ recommendations = <<>> /\ total_cost = Zero
  /\ fertilizer_recommendations = NoRecommendations
  /\ fertilizer_names = <<>>
  /\ total_quantity_per_hectare = Zero /\ total_quantity_per_acre = Zero
  /\ reasoning = <<>>
  /\ weather = [import |-> "pending"]
  /\ soil_improvements = <<>> /\ application_schedule = <<>>
  /\ recalculated_total_cost = Zero
  /\ idx = 0
  /\ biofertilizer_needed = FALSE
  /\ response = [status |-> 0]
  /\ db_recommendations = <<>>
  /\ NoCall
  /\ catalog = FERTILIZERS
  /\ EmptyStore

NextReasoning ==
  \/ ReasoningCall
  \/ ReasoningNitrogen
  \/ ReasoningPhosphorus
  \/ ReasoningPotassium
  \/ ReasoningPh
  \/ ReasoningEc
  \/ ReasoningSummary
  \/ ReasoningReturn

SpecReasoning == InitReasoning /\ [][NextReasoning]_vars

\* ======================================= the routes that write the tables
\* register_farmer, register_device, the three soil data submissions,
\* generate_recommendation (its outcome on the tables only) and
\* delete_farmer, each request served whole, in any order, while the clock
\* runs.  The read-only routes and update_farmer are left out; the reply
\* is kept as its status code.  Foreign keys are not enforced,
\* as with SQLite's default; where they are, a request that would leave a
\* dangling reference fails instead and changes no table.
MaxRows == 1

MaxClock == 1

FarmerIds == { 1, 2 }

\* NULL in a nullable integer or time column.
Null == -1

Mobiles == { "9000000001", "9000000002" }

DeviceNames == { "ESP32_001" }

Timestamps == { "2025-01-01 00:00:00", "yesterday" }

\* datetime.strptime(timestamp, "%Y-%m-%d %H:%M:%S") raises ValueError.
BadTimestamp(timestamp) == timestamp # "2025-01-01 00:00:00"

\* The primary key of a new row: one above the greatest key in use, as
\* long as it is among the keys the table may hold.
NewIds(rows, ids) ==
  { i \in ids : (\A r \in rows : r.id < i) /\ (i = 1 \/ \E r \in rows : r.id = i - 1) }

\* datetime.utcnow().strftime('%Y%m%d%H%M%S'): the clock cut to the second.
Stamp(t) ==
  "202501010000" \o (IF t \div 2 < 10 THEN "0" ELSE "") \o ToString(t \div 2)

\* f"{kind}_{key}_{stamp}"
SampleId(kind, key, t) == kind \o "_" \o key \o "_" \o Stamp(t)

\* Values that pass the range checks, and what a sensor without nutrient
\* probes sends.
ManualValues ==
  [nitrogen |-> R(25, 1), phosphorus |-> R(20, 1), potassium |-> R(20, 1),
   ph |-> R(68, 10)]

SensorValues ==
  [nitrogen |-> None, phosphorus |-> None, potassium |-> None, ph |-> R(68, 10)]

NoValues == [nitrogen |-> None, phosphorus |-> None, potassium |-> None, ph |-> None]

SoilDataRow(id, farmer_id, device, data_source, sample_id, values) ==
  [id |-> id, farmer_id |-> farmer_id, device_id |-> device,
   data_source |-> data_source, sample_id |-> sample_id, values |-> values]

\* db.add(soil_data); db.commit(): the row is stored unless its sample_id
\* is taken (unique constraint).
StoreSoilData(farmer_id, device, data_source, sample_id, values) ==
  IF \E row \in db_soil_data : row.sample_id = sample_id
  THEN /\ response' = [status |-> 500, detail |-> "IntegrityError: soil_data.sample_id"]
       /\ UNCHANGED db_soil_data
  ELSE \E id \in NewIds(db_soil_data, 1..MaxRows) :
         /\ db_soil_data' =
              db_soil_data \cup
                { SoilDataRow(id, farmer_id, device, data_source, sample_id, values) }
         /\ response' = [status |-> 201]

\* Everything the routes of this specification leave alone.
route_frame ==
  << pc, request_vars, target_vars, engine_vars, fertilizer_recommendations,
     format_vars, reasoning, weather, advice_vars, recalculated_total_cost,
     idx, biofertilizer_needed, library_vars, reasoning_parts, catalog >>

\* Time passes.
Tick ==
  /\ utcnow < MaxClock
  /\ utcnow' = utcnow + 1
  /\ UNCHANGED << route_frame, response, db_recommendations, db_farmers, db_devices,
                  db_soil_data, db_soil_health_cards >>

\* POST /farmers (farmer.py lines 15-34).
RegisterFarmer ==
  /\ \E mobile \in Mobiles :
       IF \E f \in db_farmers : f.mobile = mobile
       THEN /\ response' = [status |-> 400]
            /\ UNCHANGED db_farmers
       ELSE \E id \in NewIds(db_farmers, FarmerIds) :
              /\ db_farmers' = db_farmers \cup { [id |-> id, mobile |-> mobile] }
              /\ response' = [status |-> 201]
  /\ UNCHANGED << route_frame, db_recommendations, db_devices, db_soil_data,
                  db_soil_health_cards, utcnow >>

\* POST /devices/register (soil_data.py lines 198-215, iot_validator.py
\* lines 74-109): the farmer is not looked up.
RegisterDevice ==
  /\ \E device_id \in DeviceNames, farmer_id \in FarmerIds :
       IF \E d \in db_devices : d.device_id = device_id
       THEN /\ response' = [status |-> 400]
            /\ UNCHANGED db_devices
       ELSE \E id \in NewIds(db_devices, 1..Cardinality(DeviceNames)) :
              /\ db_devices' =
                   db_devices \cup
                     { [id |-> id, device_id |-> device_id, farmer_id |-> farmer_id,
                        is_active |-> 1, last_data_received |-> Null] }
              /\ response' = [status |-> 201]
  /\ UNCHANGED << route_frame, db_recommendations, db_farmers, db_soil_data,
                  db_soil_health_cards, utcnow >>

\* POST /soil-data/iot (soil_data.py lines 20-57 with validate_iot_data,
\* iot_validator.py lines 11-71).
IngestIot ==
  /\ \E device_id \in DeviceNames \cup {"ESP32_999"}, timestamp \in Timestamps :
       IF \A d \in db_devices : d.device_id # device_id
       THEN /\ response' = [status |-> 404]
            /\ UNCHANGED << db_devices, db_soil_data >>
       ELSE LET device == CHOOSE d \in db_devices : d.device_id = device_id
                seen == [device EXCEPT !.last_data_received = utcnow]
            IN  IF device.is_active = 0
                THEN /\ response' = [status |-> 403]
                     /\ UNCHANGED << db_devices, db_soil_data >>
                ELSE IF BadTimestamp(timestamp)
                THEN /\ response' = [status |-> 400]
                     /\ UNCHANGED << db_devices, db_soil_data >>
                ELSE /\ db_devices' = (db_devices \ {device}) \cup {seen}
                     /\ IF device.farmer_id = Null
                        THEN /\ response' = [status |-> 400]
                             /\ UNCHANGED db_soil_data
                        ELSE StoreSoilData(device.farmer_id, device.id, "sensor",
                                           SampleId("IOT", device.device_id, utcnow),
                                           SensorValues)
  /\ UNCHANGED << route_frame, db_recommendations, db_farmers, db_soil_health_cards,
                  utcnow >>

\* POST /soil-data/manual (soil_data.py lines 60-120).
ManualEntry ==
  /\ \E farmer_id \in FarmerIds, ph \in { R(68, 10), R(95, 10) } :
       IF \A f \in db_farmers : f.id # farmer_id
       THEN /\ response' = [status |-> 404]
            /\ UNCHANGED db_soil_data
       ELSE IF ~(RLe(R(35, 10), ph) /\ RLe(ph, R(9, 1)))
       THEN /\ response' = [status |-> 400]
            /\ UNCHANGED db_soil_data
       ELSE StoreSoilData(farmer_id, Null, "manual",
                          SampleId("MANUAL", ToString(farmer_id), utcnow),
                          [ManualValues EXCEPT !.ph = ph])
  /\ UNCHANGED << route_frame, db_recommendations, db_farmers, db_devices,
                  db_soil_health_cards, utcnow >>

\* POST /soil-data/upload/{farmer_id} (soil_data.py lines 123-174); what
\* the parser extracts from the file is an input.
UploadFile ==
  /\ \E farmer_id \in FarmerIds, extracted_data \in { NoValues, ManualValues } :
       IF \A f \in db_farmers : f.id # farmer_id
       THEN /\ response' = [status |-> 404]
            /\ UNCHANGED db_soil_data
       ELSE IF extracted_data = NoValues
       THEN /\ response' = [status |-> 400]
            /\ UNCHANGED db_soil_data
       ELSE StoreSoilData(farmer_id, Null, "upload",
                          SampleId("UPLOAD", ToString(farmer_id), utcnow),
                          extracted_data)
  /\ UNCHANGED << route_frame, db_recommendations, db_farmers, db_devices,
                  db_soil_health_cards, utcnow >>

\* POST /recommendations/generate as the tables see it (recommendations.py
\* lines 28-53 and 197-216): the row with its two references.
GenerateRecommendation ==
  /\ Len(db_recommendations) < MaxRows
  /\ \E farmer_id \in FarmerIds, soil_data_id \in 1..MaxRows :
       IF \A f \in db_farmers : f.id # farmer_id
       THEN /\ response' = [status |-> 404]
            /\ UNCHANGED db_recommendations
       ELSE IF \A row \in db_soil_data : row.id # soil_data_id
       THEN /\ response' = [status |-> 404]
            /\ UNCHANGED db_recommendations
       ELSE LET soil == CHOOSE row \in db_soil_data : row.id = soil_data_id
            IN  IF ~HasRequiredValues(soil.values)
                THEN /\ response' = [status |-> 400]
                     /\ UNCHANGED db_recommendations
                ELSE /\ db_recommendations' =
                          Append(db_recommendations,
                                 [farmer_id |-> farmer_id, soil_data_id |-> soil_data_id])
                     /\ response' = [status |-> 201]
  /\ UNCHANGED << route_frame, db_farmers, db_devices, db_soil_data,
                  db_soil_health_cards, utcnow >>

Unlinked_StillActive(devices, farmer_id) ==
  { IF d.farmer_id = farmer_id
    THEN [d EXCEPT !.farmer_id = -1]
    ELSE d : d \in devices }

\* Devices of the farmer are unlinked and deactivated (lines 105-108).
Unlinked(devices, farmer_id) ==
  { IF d.farmer_id = farmer_id
    THEN [d EXCEPT !.farmer_id = Null, !.is_active = 0]
    ELSE d : d \in devices }

\* DELETE /farmers/{farmer_id} (farmer.py lines 81-113).
DeleteFarmer ==
  /\ \E farmer_id \in FarmerIds :
       IF \A f \in db_farmers : f.id # farmer_id
       THEN /\ response' = [status |-> 404]
            /\ UNCHANGED << db_farmers, db_devices, db_soil_data,
                            db_soil_health_cards, db_recommendations >>
       ELSE LET cards == { c \in db_soil_health_cards : c.farmer_id # farmer_id }
                kept == SelectSeq(db_recommendations,
                                  LAMBDA r : r.farmer_id # farmer_id)
                soil == { row \in db_soil_data : row.farmer_id # farmer_id }
            IN  /\ db_soil_health_cards' = cards
                /\ db_recommendations' = kept
                /\ db_soil_data' = soil
                /\ db_devices' = Unlinked(db_devices, farmer_id)
                /\ db_farmers' = { f \in db_farmers : f.id # farmer_id }
                /\ response' = [status |-> 200]
  /\ UNCHANGED << route_frame, utcnow >>

InitStore ==
  /\ pc = "serving"
  /\ farmer = None /\ soil_data = None
  /\ required_n = Zero /\ required_p = Zero /\ required_k = Zero
  /\ n_remaining = Zero /\ p_remaining = Zero /\ k_remaining = Zero
  /\ recommendations = <<>> /\ total_cost = Zero
  /\ fertilizer_recommendations = NoRecommendations
  /\ fertilizer_names = <<>>
  /\ total_quantity_per_hectare = Zero /\ total_quantity_per_acre = Zero
  /\ reasoning = <<>>
  /\ weather = [import |-> "pending"]
  /\ soil_improvements = <<>> /\ application_schedule = <<>>
  /\ recalculated_total_cost = Zero
  /\ idx = 0
  /\ biofertilizer_needed = FALSE
  /\ response = [status |-> 0]
  /\ db_recommendations = <<>>
  /\ NoCall
  /\ catalog = FERTILIZERS
  /\ EmptyStore

NextStore ==
  \/ Tick
  \/ RegisterFarmer
  \/ RegisterDevice
  \/ IngestIot
  \/ ManualEntry
  \/ UploadFile
  \/ GenerateRecommendation
  \/ DeleteFarmer

SpecStore == InitStore /\ [][NextStore]_vars

\* ================================================================ claims
DAP == "DAP (Diammonium Phosphate)"

MOP == "MOP (Muriate of Potash)"

UREA == "Urea"

BIO == "Biofertilizer (Rhizobium/Azotobacter)"

\* Positions of the items that carry the given product name.
ItemsNamed(items, name) == { i \in 1..Len(items) : items[i].fertilizer = name }

\* recommend_fertilizers has passed step 1 / has returned.
AfterDapStep ==
  pc \notin {"start", "rejected", "predict", "alloc_start", "alloc_dap"}

EngineDone ==
  AfterDapStep /\ pc \notin {"alloc_mop", "alloc_urea"}

\* Nitrogen that comes with the DAP bought for a phosphorus target.
DapNitrogen(req_p) == RMul(RDiv(req_p, R(46, 100)), R(18, 100))

\* x is a number with at most 2 decimals, within half a unit of the second
\* decimal of the exact value.
RoundsTo(x, exact) ==
  /\ 100 % x.d = 0
  /\ RLe(RAbs(RSub(x, exact)), R(5, 1000))

NoItemForZeroTarget ==
  /\ required_p = Zero => ItemsNamed(recommendations, DAP) = {}
  /\ required_k = Zero => ItemsNamed(recommendations, MOP) = {}
  /\ required_n = Zero => ItemsNamed(recommendations, UREA) = {}

\* C1 (as stated): once the engine has run, there is no DAP item when
\* required_p = 0, no MOP item when required_k = 0, no Urea item when
\* required_n = 0, and no emitted item has quantity 0.
C1_NoZeroQuantityItem ==
  EngineDone =>
    /\ NoItemForZeroTarget
    /\ \A i \in 1..Len(recommendations) :
         recommendations[i].quantity_kg_per_hectare # Zero

\* C1 (amended): once the engine has run, there is no DAP item when
\* required_p = 0, no MOP item when required_k = 0 and no Urea item when
\* required_n = 0; an emitted item stands for a positive amount of its
\* nutrient, and its quantity_kg_per_hectare is 0.00 only when that amount
\* is so small (at most 0.0023 kg/ha of P or N, 0.003 kg/ha of K) that the
\* quantity rounds to 0.00 at 2 decimals.
C1_NoItemForZeroTarget ==
  EngineDone =>
    /\ NoItemForZeroTarget
    /\ \A i \in 1..Len(recommendations) :
         LET item == recommendations[i]
             owed == IF item.fertilizer = DAP THEN required_p
                     ELSE IF item.fertilizer = MOP THEN required_k
                     ELSE RSub(required_n, DapNitrogen(required_p))
             small == IF item.fertilizer = MOP THEN R(3, 1000) ELSE R(23, 10000)
         IN  /\ RGt(owed, Zero)
             /\ RGe(item.quantity_kg_per_hectare, Zero)
             /\ item.quantity_kg_per_hectare = Zero => RLe(owed, small)

\* A target of exactly 0 for P and K, a positive one for N: only Urea.
C1_Witness ==
  /\ EngineDone
  /\ required_p = Zero /\ required_k = Zero /\ RGt(required_n, Zero)
  /\ Len(recommendations) = 1
  /\ recommendations[1].fertilizer = UREA

\* C2 (as stated): with required_p > 0 the nitrogen that comes with the DAP
\* item is at most the nitrogen requested, and the nitrogen still owed
\* (n_remaining) is never negative.
C2_DapNitrogenWithinRequest ==
  /\ RGe(n_remaining, Zero)
  /\ (AfterDapStep /\ RGt(required_p, Zero)) =>
       RLe(DapNitrogen(required_p), required_n)

\* C2 (amended): with required_p > 0 the nitrogen that comes with the DAP
\* item may exceed the nitrogen requested; when it does, n_remaining is
\* negative (required_n minus DAP's nitrogen, not clamped to 0) from step 1
\* to the end of the allocation and no Urea item is emitted, which is the
\* only sense in which the nitrogen owed is treated as 0; when it does not,
\* n_remaining is never negative.
C2_ExcessDapNitrogenSkipsUrea ==
  (AfterDapStep /\ RGt(required_p, Zero)) =>
    IF RGt(DapNitrogen(required_p), required_n)
    THEN /\ n_remaining = RSub(required_n, DapNitrogen(required_p))
         /\ RLt(n_remaining, Zero)
         /\ ItemsNamed(recommendations, UREA) = {}
    ELSE RGe(n_remaining, Zero)

\* DAP brings more nitrogen than the positive amount requested.
C2_Witness ==
  /\ EngineDone
  /\ RGt(required_p, Zero) /\ RGt(required_n, Zero)
  /\ RLt(n_remaining, Zero)
  /\ ItemsNamed(recommendations, DAP) # {}

\* Nutrient supplied by the items of a list, from the rounded per-hectare
\* quantities and the catalog composition of each product.
Supplied(items, fraction) ==
  RSum([i \in 1..Len(items) |->
          RMul(items[i].quantity_kg_per_hectare,
               FirstNamed(items[i].fertilizer)[fraction])])

\* Items whose product carries the nutrient at all.
Carriers(items, fraction) ==
  { i \in 1..Len(items) : RGt(FirstNamed(items[i].fertilizer)[fraction], Zero) }

\* Half a unit of the second decimal, the error of one rounded quantity.
Tolerance == R(5, 1000)

\* C3: the items returned by the engine cover the target.  Phosphorus
\* supplied equals required_p and potassium supplied equals required_k, up
\* to the rounding tolerance, each from exactly one product when the target
\* is positive (from none when it is 0); nitrogen supplied by DAP and Urea
\* together is at least required_n, up to the rounding tolerance.
C3_ItemsCoverTarget ==
  EngineDone =>
    /\ Cardinality(Carriers(recommendations, "p_percent")) =
         IF RGt(required_p, Zero) THEN 1 ELSE 0
    /\ RLe(RAbs(RSub(Supplied(recommendations, "p_percent"), required_p)), Tolerance)
    /\ Cardinality(Carriers(recommendations, "k_percent")) =
         IF RGt(required_k, Zero) THEN 1 ELSE 0
    /\ RLe(RAbs(RSub(Supplied(recommendations, "k_percent"), required_k)), Tolerance)
    /\ RGe(Supplied(recommendations, "n_percent"), RSub(required_n, Tolerance))

\* All three products are used and nitrogen is split between DAP and Urea.
C3_Witness ==
  /\ EngineDone
  /\ Len(recommendations) = 3
  /\ RGt(required_n, R(100, 1))
  /\ ItemsNamed(recommendations, DAP) # {} /\ ItemsNamed(recommendations, UREA) # {}

\* C4: per hectare, DAP = required_p / 0.46, MOP = required_k / 0.60 and
\* Urea = (required_n - 0.18 * DAP) / 0.46 when that remainder is positive
\* (no Urea otherwise), each rounded to 2 decimals; for the targets
\* (120, 60, 30) on 1 ha the items are DAP 130.43, MOP 50.00 and Urea 209.83.
C4_Quantities ==
  EngineDone =>
    LET dap_exact == RDiv(required_p, R(46, 100))
        mop_exact == RDiv(required_k, R(60, 100))
        n_left == RSub(required_n, RMul(R(18, 100), dap_exact))
        urea_exact == RDiv(n_left, R(46, 100))
        qty(name) ==
          recommendations[CHOOSE i \in ItemsNamed(recommendations, name) : TRUE]
            .quantity_kg_per_hectare
    IN  /\ \A name \in {DAP, MOP, UREA} :
             Cardinality(ItemsNamed(recommendations, name)) <= 1
        /\ RGt(required_p, Zero) =>
             ItemsNamed(recommendations, DAP) # {} /\ RoundsTo(qty(DAP), dap_exact)
        /\ RGt(required_k, Zero) =>
             ItemsNamed(recommendations, MOP) # {} /\ RoundsTo(qty(MOP), mop_exact)
        /\ IF RGt(n_left, Zero)
           THEN ItemsNamed(recommendations, UREA) # {} /\ RoundsTo(qty(UREA), urea_exact)
           ELSE ItemsNamed(recommendations, UREA) = {}
        /\ (required_n = R(120, 1) /\ required_p = R(60, 1) /\ required_k = R(30, 1)) =>
             /\ [i \in 1..Len(recommendations) |-> recommendations[i].fertilizer]
                  = <<DAP, MOP, UREA>>
             /\ qty(DAP) = R(13043, 100)
             /\ qty(MOP) = R(50, 1)
             /\ qty(UREA) = R(20983, 100)

\* Scenario A has been allocated on a field of 1 ha.
C4_Witness ==
  /\ EngineDone
  /\ required_n = R(120, 1) /\ required_p = R(60, 1) /\ required_k = R(30, 1)
  /\ farmer.field_area = R(1, 1)
  /\ Len(recommendations) = 3

\* The items of the recommendation, as mutated by the route.
Items == fertilizer_recommendations.fertilizers

\* The repricing loop, the biofertilizer step and the total update are over.
Repriced == pc \in {"persist", "done"}

\* Sum of cost over the items marked verified.
VerifiedCostSum(items) ==
  RSum([i \in 1..Len(items) |->
          IF items[i].is_verified THEN items[i].cost ELSE Zero])

\* The section of a narrative with the given name.
Section(narrative, name) ==
  narrative[CHOOSE i \in 1..Len(narrative) : narrative[i].section = name].body

\* The row committed by this request.
Row == db_recommendations[Len(db_recommendations)]

\* C5: after repricing and the optional biofertilizer item, the total cost
\* of the recommendation (and the estimated cost of the committed row)
\* equals the sum of cost over the items with is_verified = true, and
\* every item with is_verified = false has cost 0.
C5_TotalIsVerifiedSum ==
  /\ Repriced =>
       /\ \A i \in 1..Len(Items) : "is_verified" \in DOMAIN Items[i]
       /\ fertilizer_recommendations.total_cost = VerifiedCostSum(Items)
       /\ \A i \in 1..Len(Items) : ~Items[i].is_verified => Items[i].cost = Zero
  /\ pc = "done" =>
       Row.estimated_cost =
         VerifiedCostSum(Section(Row.reasoning, "additional_data").fertilizer_details)

\* A committed recommendation with a priced item of several bags, an item
\* without a verified price and the biofertilizer item.
C5_Witness ==
  /\ pc = "done"
  /\ \E i \in 1..Len(Items) :
       /\ Items[i].is_verified
       /\ RGt(Items[i].cost, Items[i].price_per_50kg)
  /\ \E i \in 1..Len(Items) : Items[i].fertilizer = "NPK 29-5-5"
  /\ ItemsNamed(Items, BIO) # {}

\* The number of 50 kg bags that hold the quantity qt: the least b with
\* 50 * b >= qt.
Bags(qt) ==
  CHOOSE b \in 0..1000 :
    /\ RGe(R(50 * b, 1), qt)
    /\ b > 0 => RLt(R(50 * (b - 1), 1), qt)

\* C6: one pass of the repricing loop over an item whose base name is a key
\* of the verified price table sets cost = ceil(quantity_total / 50) times
\* the price_per_50kg of that key, marks the item verified and adds exactly
\* that cost to the running total.
C6_VerifiedItemCost ==
  [][ (pc = "reprice" /\ idx' = idx + 1) =>
        LET before == fertilizer_recommendations.fertilizers[idx]
            after == fertilizer_recommendations'.fertilizers[idx]
        IN  \A key \in DOMAIN FERTILIZER_PRICES_INR :
              Chars(key) = BaseName(before.fertilizer) =>
                /\ after.price_per_50kg = R(FERTILIZER_PRICES_INR[key].price_per_50kg, 1)
                /\ after.cost = R(Bags(after.quantity_total)
                                    * FERTILIZER_PRICES_INR[key].price_per_50kg, 1)
                /\ after.is_verified
                /\ recalculated_total_cost' = RAdd(recalculated_total_cost, after.cost)
    ]_vars

\* The loop has priced a DAP item that needs more than one bag, after
\* another priced item.
C6_Witness ==
  /\ pc = "reprice" /\ idx = 3
  /\ Items[2].fertilizer = DAP
  /\ Items[2].is_verified
  /\ RGt(Items[2].cost, R(1350, 1))
  /\ Items[1].is_verified
  /\ recalculated_total_cost = RAdd(Items[1].cost, Items[2].cost)

\* C7: an item whose base name is not a key of the verified price table
\* ("NPK 29-5-5" is one) is no error: the loop gives it the unavailable
\* text as price, cost 0 and is_verified = false, leaves the running total
\* as it was and goes on; the request ends with 201 and every item priced
\* or marked.
C7_UnknownItemUnverified ==
  /\ [](pc = "done" =>
          /\ response.status = 201
          /\ \A i \in 1..Len(Items) : "is_verified" \in DOMAIN Items[i]
          /\ \A i \in ItemsNamed(Items, "NPK 29-5-5") :
               /\ ~Items[i].is_verified
               /\ Items[i].cost = Zero
               /\ Items[i].price_per_50kg = PriceNotAvailable)
  /\ [][ (pc = "reprice" /\ idx' = idx + 1) =>
           LET before == fertilizer_recommendations.fertilizers[idx]
               after == fertilizer_recommendations'.fertilizers[idx]
           IN  (\A key \in DOMAIN FERTILIZER_PRICES_INR :
                  Chars(key) # BaseName(before.fertilizer)) =>
                 /\ after.price_per_50kg = PriceNotAvailable
                 /\ after.cost = Zero
                 /\ ~after.is_verified
                 /\ recalculated_total_cost' = recalculated_total_cost
                 /\ pc' = "reprice"
                 /\ response' = response
     ]_vars

\* "NPK 29-5-5" came first and was marked unverified, the item after it
\* was priced, and the recommendation was committed.
C7_Witness ==
  /\ pc = "done"
  /\ Len(Items) >= 2
  /\ Items[1].fertilizer = "NPK 29-5-5"
  /\ ~Items[1].is_verified /\ Items[1].cost = Zero
  /\ Items[2].is_verified /\ RGt(Items[2].cost, Zero)
  /\ fertilizer_recommendations.total_cost = Items[2].cost

\* C8: the biofertilizer item is appended exactly once if and only if
\* organic_carbon is known and below 0.75, with 2.0 kg/ha, 2.0 x field area
\* in total, cost 0, is_verified = false and stage Seed Treatment; it is
\* not in the list while the repricing loop runs, so it is never repriced,
\* and the total cost is the running total of the loop.
C8_BiofertilizerOnce ==
  LET bio == ItemsNamed(Items, BIO)
      oc == soil_data.organic_carbon
      low == oc # None /\ oc.n * 100 < 75 * oc.d
  IN  IF pc \in {"update_total", "persist", "done"}
      THEN /\ Cardinality(bio) = IF low THEN 1 ELSE 0
           /\ biofertilizer_needed = low
           /\ \A i \in bio :
                /\ i = Len(Items)
                /\ Items[i].quantity_kg_per_hectare = R(2, 1)
                /\ Items[i].quantity_total =
                     R(2 * farmer.field_area.n, farmer.field_area.d)
                /\ Items[i].cost = Zero
                /\ Items[i].is_verified = FALSE
                /\ Items[i].application_stage = "Seed Treatment"
           /\ recalculated_total_cost =
                VerifiedCostSum([i \in (1..Len(Items)) \ bio |-> Items[i]])
           /\ Repriced => fertilizer_recommendations.total_cost = recalculated_total_cost
      ELSE bio = {}

\* A committed recommendation for a soil with organic carbon 0.4: the
\* biofertilizer item follows the priced items.
C8_Witness ==
  /\ pc = "done"
  /\ soil_data.organic_carbon = R(4, 10)
  /\ Len(Items) >= 2
  /\ Items[Len(Items)].fertilizer = BIO
  /\ RGt(fertilizer_recommendations.total_cost, Zero)

\* C9: in the committed row the estimated cost is the verified running
\* total, and the fertilizer summary inside the reasoning carries the same
\* total and, item by item, the repriced costs: nothing of the engine's
\* rough estimate is left.
C9_NoRoughEstimateLeft ==
  pc = "done" =>
    LET summary == Section(Row.reasoning, "summary")
        details == Section(Row.reasoning, "additional_data").fertilizer_details
    IN  /\ Row.estimated_cost = recalculated_total_cost
        /\ summary.total_cost = Row.estimated_cost
        /\ \A i \in 1..Len(summary.items) : summary.items[i].cost = details[i].cost

\* The weather lookup was made and failed: the request raised or timed
\* out, the status was an error, the body was no JSON, or the JSON lacked
\* the daily forecast or held a null rain value.
WeatherLookupFailed ==
  /\ weather.import = "ok"
  /\ \/ weather.http.kind \in HttpFailures
     \/ /\ weather.http.kind = "json"
        /\ \/ "daily" \notin DOMAIN weather.http.body
           \/ \E i \in 1..Len(FirstThree(weather.http.body.daily.rain_sum)) :
                weather.http.body.daily.rain_sum[i] = None

RequestIncomplete ==
  \/ farmer = None
  \/ soil_data = None
  \/ soil_data.nitrogen = None
  \/ soil_data.phosphorus = None
  \/ soil_data.potassium = None
  \/ soil_data.ph = None

\* C11: a request whose farmer or soil row does not exist, or whose soil
\* row lacks nitrogen, phosphorus, potassium or pH, is either not yet
\* looked at or rejected (404 for a missing row, 400 for a missing value):
\* the predictor has set no target, the engine has produced no item and
\* no recommendation row is committed.
C11_IncompleteRequestRejected ==
  RequestIncomplete =>
    /\ pc \in {"start", "rejected"}
    /\ pc = "rejected" =>
         response.status = IF farmer = None \/ soil_data = None THEN 404 ELSE 400
    /\ required_n = Zero /\ required_p = Zero /\ required_k = Zero
    /\ recommendations = <<>>
    /\ fertilizer_recommendations = NoRecommendations
    /\ db_recommendations = <<>>

\* A request for an existing farmer and a soil row without pH was rejected.
C11_Witness ==
  /\ pc = "rejected"
  /\ farmer # None /\ soil_data # None
  /\ soil_data.ph = None /\ soil_data.nitrogen # None
  /\ response.status = 400
  /\ db_recommendations = <<>>

\* A call of get_soil_improvements has run to its return statement: the
\* list it returns is improvements.
AdvisorReturns == pc = "advisor_return"

\* The positions of the returned list with the given issue.
Advisories(issue) ==
  { i \in 1..Len(improvements) : improvements[i].issue = issue }

Lime == Advisories("Acidic Soil (pH < 5.5)")

PhGypsum == Advisories("Alkaline Soil (pH > 7.5)")

\* clamp(1000 x (6.5 - ph), 500, 3000), in whole kg.
LimeFormula(ph) ==
  LET kg == (1000 * (65 * ph.d - 10 * ph.n)) \div (10 * ph.d)
  IN  IF kg < 500 THEN 500 ELSE IF kg > 3000 THEN 3000 ELSE kg

\* C12: a call with ph < 5.5 returns one lime advisory whose quantity is
\* clamp(1000 x (6.5 - ph), 500, 3000) kg/ha, and a call with ph >= 5.5
\* returns no lime advisory.
C12_LimeQuantity ==
  AdvisorReturns =>
    IF call_args.ph.n * 10 < 55 * call_args.ph.d
    THEN /\ Cardinality(Lime) = 1
         /\ \A i \in Lime :
              improvements[i].quantity = <<LimeFormula(call_args.ph), " kg/ha">>
    ELSE Lime = {}

\* The gypsum tier of a pH above 7.5.
GypsumTier(ph) ==
  IF ph.n * 10 > 85 * ph.d THEN 750
  ELSE IF ph.n * 10 > 80 * ph.d THEN 500
  ELSE 350

\* C13: a call with ph > 7.5 returns one pH gypsum advisory, of 750 kg/ha
\* for ph > 8.5, 500 kg/ha for 8.0 < ph <= 8.5 and 350 kg/ha for
\* 7.5 < ph <= 8.0; a call with ph <= 7.5 returns none; lime and pH gypsum
\* are never returned together.
C13_GypsumTiers ==
  AdvisorReturns =>
    /\ IF call_args.ph.n * 10 > 75 * call_args.ph.d
       THEN /\ Cardinality(PhGypsum) = 1
            /\ \A i \in PhGypsum :
                 improvements[i].quantity = <<GypsumTier(call_args.ph), " kg/ha">>
       ELSE PhGypsum = {}
    /\ Lime = {} \/ PhGypsum = {}

\* Scenario C: ph = 8.8 gave 750 kg/ha of gypsum.
C13_Witness ==
  /\ AdvisorReturns
  /\ call_args.ph = R(88, 10)
  /\ improvements[1].issue = "Alkaline Soil (pH > 7.5)"
  /\ improvements[1].quantity = <<750, " kg/ha">>

\* The rule of an advisory: 1 pH, 2 EC, 3 organic carbon, 4 phosphorus,
\* 5 green manure, 6 maintenance.
RuleOf(advisory) ==
  CASE advisory.issue \in {"Acidic Soil (pH < 5.5)", "Alkaline Soil (pH > 7.5)"} -> 1
    [] advisory.issue = "High Salinity (EC > 2.0 dS/m)" -> 2
    [] advisory.issue \in {"Low Organic Matter (OC < 0.5%)", "Moderate Organic Matter"} -> 3
    [] advisory.issue = "Very Low Phosphorus" -> 4
    [] advisory.issue = "Multiple Soil Health Issues" -> 5
    [] advisory.issue = "Soil Health Maintenance" -> 6

\* The threshold rules that the arguments of the call trigger.
TriggeredRules ==
  LET a == call_args
  IN  { r \in 1..4 :
          \/ r = 1 /\ (a.ph.n * 10 < 55 * a.ph.d \/ a.ph.n * 10 > 75 * a.ph.d)
          \/ r = 2 /\ a.ec # None /\ a.ec.n > 2 * a.ec.d
          \/ r = 3 /\ a.organic_carbon # None
                   /\ a.organic_carbon.n * 100 < 75 * a.organic_carbon.d
          \/ r = 4 /\ a.phosphorus # None /\ a.phosphorus.n < 10 * a.phosphorus.d }

\* The rules of the returned list, in its order.
ReturnedRules == [i \in 1..Len(improvements) |-> RuleOf(improvements[i])]

InTriggeredRules(r) == r \in TriggeredRules

IsThresholdRule(r) == r \in 1..4

\* C14: the green manure advisory is returned if and only if at least two
\* of the pH, EC, organic carbon and phosphorus rules triggered; it comes
\* after all of them, and the triggered rules come in the order pH, EC,
\* organic carbon, phosphorus.
C14_GreenManureAfterTwo ==
  AdvisorReturns =>
    /\ (5 \in { ReturnedRules[i] : i \in 1..Len(improvements) })
         <=> Cardinality(TriggeredRules) >= 2
    /\ \A i \in 1..Len(improvements) :
         ReturnedRules[i] = 5 =>
           /\ i = Len(improvements)
           /\ i = Cardinality(TriggeredRules) + 1
    /\ SelectSeq(ReturnedRules, IsThresholdRule)
         = SelectSeq(<<1, 2, 3, 4>>, InTriggeredRules)

\* Salinity and low phosphorus alone, at a neutral pH: green manure comes
\* third.
C14_Witness ==
  /\ AdvisorReturns
  /\ TriggeredRules = {2, 4}
  /\ ReturnedRules = <<2, 4, 5>>

\* C15: the maintenance advisory is returned if and only if no threshold
\* rule triggered, and then alone; the returned list is never empty.
C15_MaintenanceAlone ==
  AdvisorReturns =>
    /\ (6 \in { ReturnedRules[i] : i \in 1..Len(improvements) })
         <=> TriggeredRules = {}
    /\ (6 \in { ReturnedRules[i] : i \in 1..Len(improvements) })
         => Len(improvements) = 1
    /\ improvements # <<>>

\* A neutral soil with EC 0 and no organic carbon value: maintenance only.
C15_Witness ==
  /\ AdvisorReturns
  /\ call_args.ec = Zero
  /\ improvements # <<>>
  /\ improvements[1].issue = "Soil Health Maintenance"
  /\ Len(improvements) = 1

\* C16: a call returns the same ordered list as any earlier call with the
\* same arguments, whatever was called in between.
C16_SameInputsSameOutput ==
  (AdvisorReturns /\ earlier_call # None /\ earlier_call.args = call_args)
    => improvements = earlier_call.result

\* A second call with the arguments of a remembered one, both returning
\* four advisories.
C16_Witness ==
  /\ AdvisorReturns
  /\ earlier_call # None
  /\ earlier_call.args = call_args
  /\ Len(earlier_call.result) = 4
  /\ improvements = earlier_call.result

\* A call of get_application_schedule has reached its return statement:
\* the list it returns is application_schedule.
ScheduleReturns == pc = "schedule_return"

\* The character c is the lower-case letter w, or its capital.
SameLetter(c, w) ==
  c = w \/ \E j \in 1..26 : UpperCase[j] = c /\ LowerCase[j] = w

\* The crop name holds the keyword somewhere, whatever the case.
Mentions(crop_name, word) ==
  LET name == Chars(crop_name)
      w == Chars(word)
  IN  \E i \in 0..(Len(name) - Len(w)) :
        \A j \in 1..Len(w) : SameLetter(name[i + j], w[j])

\* The keywords in dispatch order, each with its schedule.
KeywordOrder ==
  << [words |-> {"rice", "paddy"}, schedule |-> get_rice_schedule],
     [words |-> {"wheat"}, schedule |-> get_wheat_schedule],
     [words |-> {"maize", "corn"}, schedule |-> get_maize_schedule],
     [words |-> {"cotton"}, schedule |-> get_cotton_schedule],
     [words |-> {"sugarcane"}, schedule |-> get_sugarcane_schedule],
     [words |-> {"potato"}, schedule |-> get_potato_schedule],
     [words |-> {"tomato"}, schedule |-> get_tomato_schedule] >>

\* The places of KeywordOrder with a keyword the crop name holds.
Matching(crop_name) ==
  { k \in 1..Len(KeywordOrder) :
      \E word \in KeywordOrder[k].words : Mentions(crop_name, word) }

\* C17: the schedule returned is that of the first place in the order
\* rice/paddy, wheat, maize/corn, cotton, sugarcane, potato, tomato with a
\* keyword that the crop name holds as a substring in any case, so
\* "Basmati Rice" gets the rice schedule; a name that holds none of the
\* keywords gets the generic schedule.
C17_FirstKeywordDecides ==
  ScheduleReturns =>
    /\ \A k \in Matching(call_args.crop_name) :
         (\A l \in Matching(call_args.crop_name) : k <= l)
           => application_schedule = KeywordOrder[k].schedule
    /\ Matching(call_args.crop_name) = {}
         => application_schedule = get_default_schedule
    /\ call_args.crop_name = "Basmati Rice"
         => application_schedule = get_rice_schedule

\* Scenario D: "Basmati Rice" got the rice schedule, which is not the
\* generic one.
C17_Witness ==
  /\ ScheduleReturns
  /\ call_args.crop_name = "Basmati Rice"
  /\ application_schedule = get_rice_schedule
  /\ application_schedule # get_default_schedule

\* The stages of the returned schedule whose fertilizer text names the
\* product.
StagesWith(product) ==
  { i \in 1..Len(application_schedule) :
      Contains(Chars(application_schedule[i].fertilizer), Chars(product)) }

\* The sum of quantity_percent over the given stages of the returned
\* schedule.
PercentSum(stages) ==
  RSum([i \in 1..Len(application_schedule) |->
          IF i \in stages THEN application_schedule[i].quantity_percent ELSE Zero])

\* C18: every schedule returned has exactly 3 stages, and the
\* quantity_percent of its Urea stages sum to 100.
C18_ThreeStagesNitrogenWhole ==
  ScheduleReturns =>
    /\ Len(application_schedule) = 3
    /\ PercentSum(StagesWith("Urea")) = R(100, 1)

\* The cotton schedule, whose Urea shares are 25, 37.5 and 37.5.
C18_Witness ==
  /\ ScheduleReturns
  /\ call_args.crop_name = "Cotton"
  /\ Len(application_schedule) = 3
  /\ StagesWith("Urea") = {1, 2, 3}
  /\ application_schedule[2].quantity_percent = R(75, 2)

\* C19: in every schedule returned each quantity_percent lies in 0..100
\* and, for each of DAP (phosphorus), MOP (potassium) and Urea (nitrogen),
\* the quantity_percent of the stages that apply it sum to 100.
C19_EveryNutrientWhole ==
  ScheduleReturns =>
    /\ \A i \in 1..Len(application_schedule) :
         /\ RLe(Zero, application_schedule[i].quantity_percent)
         /\ RLe(application_schedule[i].quantity_percent, R(100, 1))
    /\ \A product \in {"DAP", "MOP", "Urea"} :
         PercentSum(StagesWith(product)) = R(100, 1)

\* C20: a call returns the same stages and percentages as any earlier call
\* for the same crop name, whatever total_n, total_p and total_k were.
C20_TotalsIgnored ==
  (/\ ScheduleReturns
   /\ earlier_call # None
   /\ earlier_call.args.crop_name = call_args.crop_name)
    => application_schedule = earlier_call.result

\* Wheat scheduled for totals 120/60/30 after wheat scheduled for totals
\* of zero.
C20_Witness ==
  /\ ScheduleReturns
  /\ earlier_call # None
  /\ earlier_call.args.crop_name = "Wheat"
  /\ call_args.crop_name = "Wheat"
  /\ earlier_call.args.total_n = Zero
  /\ call_args.total_n = R(120, 1)
  /\ application_schedule = get_wheat_schedule
  /\ earlier_call.result = application_schedule

\* generate_reasoning has appended every assessment line of the call.
NarrativeComplete == pc \in {"narrative_summary", "narrative_return"}

\* The levels stated by the narrative's lines about one quantity.
LevelsAbout(about) ==
  { reasoning_parts[i].level :
      i \in { j \in 1..Len(reasoning_parts) : reasoning_parts[j].about = about } }

\* Low below low, Moderate from low to below high, High otherwise.
ThreeLevels(about, value, low, high) ==
  LevelsAbout(about) =
    { CASE RLt(value, R(low, 1)) -> "LOW"
        [] RGe(value, R(low, 1)) /\ RLt(value, R(high, 1)) -> "MODERATE"
        [] OTHER -> "HIGH" }

\* C21: the narrative states nitrogen as Low below 20, Moderate from 20 to
\* below 30 and High otherwise; phosphorus and potassium as Low below 15,
\* Moderate from 15 to below 25 and High otherwise; pH as Acidic below 5.5,
\* Alkaline above 7.5 and Neutral otherwise; and it has a high-salinity line
\* only when EC > 2.0.
C21_NarrativeLevels ==
  NarrativeComplete =>
    /\ ThreeLevels("nitrogen", call_args.soil_data.nitrogen, 20, 30)
    /\ ThreeLevels("phosphorus", call_args.soil_data.phosphorus, 15, 25)
    /\ ThreeLevels("potassium", call_args.soil_data.potassium, 15, 25)
    /\ LevelsAbout("ph") =
         { CASE RLt(call_args.soil_data.ph, R(11, 2)) -> "ACIDIC"
             [] RGt(call_args.soil_data.ph, R(15, 2)) -> "ALKALINE"
             [] OTHER -> "NEUTRAL" }
    /\ (LevelsAbout("ec") # {}) <=>
         (call_args.soil_data.ec # None /\ RGt(call_args.soil_data.ec, R(2, 1)))

\* A narrative for a soil that sits on the thresholds: nitrogen 20,
\* phosphorus 15, potassium 25, pH 7.5 and EC 2.0.
C21_Witness ==
  /\ pc = "narrative_return"
  /\ call_args.soil_data.nitrogen = R(20, 1)
  /\ call_args.soil_data.phosphorus = R(15, 1)
  /\ call_args.soil_data.potassium = R(25, 1)
  /\ call_args.soil_data.ph = R(15, 2)
  /\ call_args.soil_data.ec = R(2, 1)
  /\ LevelsAbout("nitrogen") = {"MODERATE"}
  /\ LevelsAbout("phosphorus") = {"MODERATE"}
  /\ LevelsAbout("potassium") = {"HIGH"}
  /\ LevelsAbout("ph") = {"NEUTRAL"}
  /\ LevelsAbout("ec") = {}

\* The quantity of a product in kg per hectare as the allocation computes
\* it, before any rounding.
FullPrecisionDap ==
  IF RGt(required_p, Zero) THEN RDiv(required_p, R(46, 100)) ELSE Zero

FullPrecision(name) ==
  CASE name = DAP -> FullPrecisionDap
    [] name = MOP ->
         IF RGt(required_k, Zero) THEN RDiv(required_k, R(60, 100)) ELSE Zero
    [] name = UREA ->
         LET left == RSub(required_n, RMul(FullPrecisionDap, R(18, 100)))
         IN  IF RGt(left, Zero) THEN RDiv(left, R(46, 100)) ELSE Zero

\* C22: values are rounded to 2 decimals only when they are emitted; the
\* bag count of repricing and the total quantity per hectare are what the
\* unrounded quantities give.
C22_RoundedOnlyWhenEmitted ==
  pc = "done" =>
    /\ Row.quantity_kg_per_hectare =
         Round(RAdd(RAdd(FullPrecision(DAP), FullPrecision(MOP)), FullPrecision(UREA)), 2)
    /\ \A i \in 1..Len(Items) :
         Items[i].fertilizer \in {DAP, MOP, UREA} =>
           Items[i].cost =
             R(Ceil(RDiv(RMul(FullPrecision(Items[i].fertilizer), farmer.field_area),
                         R(50, 1)))
               * Items[i].price_per_50kg.n, 1)

\* C23: no allocation step divides by a zero nutrient fraction: the product
\* a step selects has a non-zero fraction of the nutrient the step divides
\* by, and the catalog is at all times the list it was loaded as.
C23_NoZeroFraction ==
  /\ catalog = FERTILIZERS
  /\ (pc = "alloc_dap" /\ RGt(p_remaining, Zero)) =>
       FirstStartingWith("DAP").p_percent # Zero
  /\ (pc = "alloc_mop" /\ RGt(k_remaining, Zero)) =>
       FirstStartingWith("MOP").k_percent # Zero
  /\ (pc = "alloc_urea" /\ RGt(n_remaining, Zero)) =>
       FirstNamed("Urea").n_percent # Zero

\* An allocation in which all three steps divided: it returns three items.
C23_Witness ==
  /\ pc = "alloc_return"
  /\ Len(recommendations) = 3
  /\ catalog = FERTILIZERS

\* The fields repricing may add to a line item, and the one it may change.
RepricingAdds == {"price_per_50kg", "is_verified", "note"}

\* Line item i is the same before and after the step, but for what
\* repricing may touch.
KeptByRepricing(before, after) ==
  /\ DOMAIN before \subseteq DOMAIN after
  /\ DOMAIN after \ DOMAIN before \subseteq RepricingAdds
  /\ \A field \in DOMAIN before \ ({"cost"} \cup RepricingAdds) :
       after[field] = before[field]

\* The step is the iteration of the repricing loop that handles item i.
Reprices(i) == pc = "reprice" /\ idx = i

\* C24: repricing changes only the price, cost, verified and note fields of
\* a line item; its name, its three quantities, its provides text and its
\* position stay, and once its iteration is over no step modifies it.
C24_RepricingFrame ==
  [][\A i \in 1..Len(Items) :
       /\ i <= Len(Items')
       /\ IF Reprices(i) THEN KeptByRepricing(Items[i], Items'[i])
          ELSE Items'[i] = Items[i]]_vars

\* A committed recommendation whose two engine items were repriced: the
\* cost of the first changed, its quantities are the engine's.
C24_Witness ==
  /\ pc = "done"
  /\ Len(recommendations) = 2
  /\ Items[1].is_verified
  /\ Items[1].cost # recommendations[1].cost
  /\ Items[1].quantity_total = recommendations[1].quantity_total
  /\ Items[2].fertilizer = recommendations[2].fertilizer

\* What the advisor reads, and what the scheduler reads.
AdvisorReads ==
  << soil_data.ph, soil_data.ec, soil_data.organic_carbon,
     soil_data.nitrogen, soil_data.phosphorus, soil_data.potassium >>

SchedulerReads == << farmer.crop_name, required_n, required_p, required_k >>

\* From the call of the advisor to the commit: the stretch of the handler
\* in which the advisor, the scheduler and repricing run.
AdviceWindow ==
  pc \in {"improvements", "schedule", "reprice_start", "reprice", "update_total",
          "persist"}

\* C25: the advisor and the scheduler depend neither on each other nor on
\* the line items: no step from the advisor's call to the commit changes
\* what either of them reads, so either would return the same at any point
\* of that stretch (the committed lists are what they return on the state
\* after repricing), and neither changes the other's list, the line items
\* or the total cost.
C25_AdvisorsIndependent ==
  /\ [](pc = "persist" =>
          /\ soil_improvements =
               get_soil_improvements(soil_data.ph, soil_data.ec,
                                     soil_data.organic_carbon, soil_data.nitrogen,
                                     soil_data.phosphorus, soil_data.potassium)
          /\ application_schedule =
               get_application_schedule(farmer.crop_name, required_n, required_p,
                                        required_k))
  /\ [][AdviceWindow =>
          /\ AdvisorReads' = AdvisorReads
          /\ SchedulerReads' = SchedulerReads
          /\ pc = "improvements" => application_schedule' = application_schedule
          /\ pc = "schedule" => soil_improvements' = soil_improvements
          /\ pc \in {"improvements", "schedule"} =>
               /\ fertilizer_recommendations' = fertilizer_recommendations
               /\ recalculated_total_cost' = recalculated_total_cost
          /\ pc \notin {"improvements", "schedule"} =>
               /\ soil_improvements' = soil_improvements
               /\ application_schedule' = application_schedule]_vars

\* A committed recommendation with engine items, a biofertilizer item, soil
\* improvements and a three-stage schedule.
C25_Witness ==
  /\ pc = "done"
  /\ Len(recommendations) >= 2
  /\ biofertilizer_needed
  /\ Len(soil_improvements) >= 2
  /\ Len(application_schedule) = 3

\* The name without its parenthetical suffix and the blanks around it,
\* read off the name character by character.
Unsuffixed(name) ==
  LET cs == Chars(name)
      stop == IF \E i \in 1..Len(cs) : cs[i] = "("
              THEN (CHOOSE i \in 1..Len(cs) :
                      cs[i] = "(" /\ \A j \in 1..(i - 1) : cs[j] # "(") - 1
              ELSE Len(cs)
      last == IF \E i \in 1..stop : cs[i] # " "
              THEN CHOOSE i \in 1..stop :
                     cs[i] # " " /\ \A j \in (i + 1)..stop : cs[j] = " "
              ELSE 0
      first == IF last = 0 THEN 1
               ELSE CHOOSE i \in 1..last : cs[i] # " " /\ \A j \in 1..(i - 1) : cs[j] = " "
  IN  SubSeq(cs, first, last)

\* C26: every item the allocation engine produces resolves, once its suffix
\* is stripped, to a key of the verified price table; after repricing every
\* engine item is verified and the only unverified item is the
\* biofertilizer item.
C26_EngineItemsVerified ==
  /\ \A i \in 1..Len(recommendations) :
       /\ recommendations[i].fertilizer \in {DAP, MOP, UREA}
       /\ \E key \in DOMAIN FERTILIZER_PRICES_INR :
            Chars(key) = Unsuffixed(recommendations[i].fertilizer)
  /\ Repriced =>
       /\ \A i \in 1..Len(recommendations) :
            Items[i].fertilizer = recommendations[i].fertilizer /\ Items[i].is_verified
       /\ \A i \in 1..Len(Items) :
            ~Items[i].is_verified => (Items[i].fertilizer = BIO /\ i > Len(recommendations))

\* A committed recommendation with the three engine items verified and the
\* biofertilizer item, unverified, after them.
C26_Witness ==
  /\ pc = "done"
  /\ Len(recommendations) = 3
  /\ Len(Items) = 4
  /\ \A i \in 1..3 : Items[i].is_verified
  /\ ~Items[4].is_verified

\* The instructions a timing text can hold.
UreaSplits ==
  { "**Basal Application** (at sowing): 25-30% of Urea",
    "**First Top Dressing** (3-4 weeks after sowing): 35-40% of Urea",
    "**Second Top Dressing** (6-7 weeks after sowing): 30-35% of Urea" }

BasalDapMop == "**Basal Application** (at sowing/planting): Apply all DAP and MOP"

\* The instructions of a timing text.
Instructions(timing) == { timing[i] : i \in 1..Len(timing) }

\* C27: the timing text recommend_fertilizers returns agrees with the items
\* of the same call: the three Urea split instructions are there exactly
\* when a Urea item is, the basal DAP/MOP instruction exactly when a DAP or
\* a MOP item is.
C27_TimingMatchesItems ==
  pc = "format" =>
    LET timing == Instructions(fertilizer_recommendations.application_timing)
    IN  /\ IF ItemsNamed(Items, UREA) # {}
           THEN UreaSplits \subseteq timing
           ELSE UreaSplits \cap timing = {}
        /\ (BasalDapMop \in timing) <=>
             (ItemsNamed(Items, DAP) \cup ItemsNamed(Items, MOP) # {})

\* The line items stored with a committed row.
FertilizerDetails(row) ==
  Section(row.reasoning, "additional_data").fertilizer_details

\* C28: in every committed recommendation fertilizer_name lists exactly the
\* fertilizers of fertilizer_details, in their order, and
\* quantity_kg_per_hectare is the sum of quantity_kg_per_hectare over them.
C28_AggregatesMatchDetails ==
  \A r \in 1..Len(db_recommendations) :
    LET row == db_recommendations[r]
        details == FertilizerDetails(row)
    IN  /\ row.fertilizer_name = [i \in 1..Len(details) |-> details[i].fertilizer]
        /\ row.quantity_kg_per_hectare =
             Round(RSum([i \in 1..Len(details) |-> details[i].quantity_kg_per_hectare]), 2)

\* The reply of a submission whose commit broke the unique constraint on
\* sample_id.
DuplicateSampleId ==
  [status |-> 500, detail |-> "IntegrityError: soil_data.sample_id"]

\* C29: any two soil data submissions get distinct sample_id values, two of
\* the same kind for the same farmer or device within one clock second
\* included, so no submission fails on the unique constraint.
C29_NoDuplicateSampleId == response # DuplicateSampleId

\* The farmers with a row.
Registered(rows) == { row.id : row \in rows }

\* C30: after delete_farmer(f) succeeds no soil data, recommendation or
\* soil health card row references f and every device that was linked to f
\* has no farmer and is inactive; a device without farmer is inactive, and
\* from then on no request changes it (its last_data_received included) or
\* stores soil data that comes from it, so every later ingest from it is
\* rejected.
C30_DeletedFarmerLeavesNothing ==
  /\ [][\A f \in Registered(db_farmers) \ Registered(db_farmers') :
          /\ \A row \in db_soil_data' : row.farmer_id # f
          /\ \A i \in 1..Len(db_recommendations') : db_recommendations'[i].farmer_id # f
          /\ \A card \in db_soil_health_cards' : card.farmer_id # f
          /\ \A d \in db_devices :
               d.farmer_id = f =>
                 \E e \in db_devices' :
                   e.id = d.id /\ e.farmer_id = Null /\ e.is_active = 0]_vars
  /\ [](\A d \in db_devices : d.farmer_id = Null => d.is_active = 0)
  /\ [][\A d \in db_devices :
          d.farmer_id = Null =>
            /\ d \in db_devices'
            /\ \A row \in db_soil_data' \ db_soil_data : row.device_id # d.id]_vars

\* The farmer of a device that had sent data is deleted, time passes and
\* the device sends again: the reply is 403, no soil data is stored and
\* last_data_received is the time of the earlier ingest.
C30_Witness ==
  /\ db_farmers = {}
  /\ db_soil_data = {}
  /\ response = [status |-> 403]
  /\ \E d \in db_devices :
       /\ d.farmer_id = Null
       /\ d.is_active = 0
       /\ d.last_data_received # Null
       /\ d.last_data_received < utcnow

====
